---- MODULE Spec2Model ----
(***************************************************************************)
(* Verification model of the hkmovie6 scraper: the per-item retry/recovery *)
(* wrapper (scraper/movie_scraper.py), the detail passes over the movie    *)
(* and cinema listings, the run coordinator (main.py) and the record store *)
(* adapter (db/supabase_client.py).                                        *)
(***************************************************************************)
EXTENDS Integers, Sequences, FiniteSets, TLC

(***************************************************************************)
(* Text helpers: Python's str.lower() and the `in` substring test.         *)
(***************************************************************************)
UpperAlpha == "ABCDEFGHIJKLMNOPQRSTUVWXYZ"
LowerAlpha == "abcdefghijklmnopqrstuvwxyz"

LowerChar(c) ==
    IF \E i \in 1..26 : SubSeq(UpperAlpha, i, i) = c
    THEN LET i == CHOOSE j \in 1..26 : SubSeq(UpperAlpha, j, j) = c
         IN  SubSeq(LowerAlpha, i, i)
    ELSE c

RECURSIVE lower(_)
lower(s) ==
    IF Len(s) = 0 THEN ""
    ELSE LowerChar(SubSeq(s, 1, 1)) \o lower(SubSeq(s, 2, Len(s)))

\* Python: pattern in text
Contains(text, pattern) ==
    \E i \in 1..(Len(text) - Len(pattern) + 1) :
        SubSeq(text, i, i + Len(pattern) - 1) = pattern

(***************************************************************************)
(* Failure classification pattern sets.                                    *)
(***************************************************************************)
connection_patterns ==
    { "connect call failed", "connection refused", "connection reset",
      "broken pipe", "target closed", "session not created",
      "chrome not reachable", "no such session", "invalid session id",
      "failed to connect to browser", "browser process died",
      "browser crashed", "chrome has crashed",
      "timed out during opening handshake", "timeout", "handshake",
      "websocket", "connection timed out", "read timeout",
      "startup timeout" }

\* MovieScraper._is_connection_error(error), on str(error)
is_connection_error(error_text) ==
    \E pattern \in connection_patterns : Contains(lower(error_text), pattern)

browser_patterns ==
    { "stopiteration", "timed out during opening handshake",
      "failed to connect to browser", "failed to initialize browser",
      "chrome not reachable", "session not created", "no such session",
      "invalid session id", "target closed", "connection refused",
      "connection reset", "broken pipe", "connect call failed",
      "browser process ended", "chrome has crashed",
      "websocket connection closed" }

\* main.is_browser_error(error), on str(error)
is_browser_error(error_text) ==
    \E pattern \in browser_patterns : Contains(lower(error_text), pattern)

blocking_patterns ==
    { "cloudflare", "challenge", "captcha", "access denied", "blocked",
      "rate limit", "too many requests", "suspicious activity" }

\* main.is_cloudflare_or_blocking(error_msg)
is_cloudflare_or_blocking(error_msg) ==
    \E pattern \in blocking_patterns : Contains(lower(error_msg), pattern)

\* Variant: the indicator list without 'error retrieving'.
error_indicators_short ==
    { "timeout error", "connection error", "restart timeout",
      "browser restart", "browser unresponsive", "restart timed out",
      "restart failed", "browser restart timed out",
      "connection error - restart timeout", "restart timeout error" }

error_indicators ==
    { "timeout error", "connection error", "restart timeout",
      "browser restart", "error retrieving", "browser unresponsive",
      "restart timed out", "restart failed", "browser restart timed out",
      "connection error - restart timeout", "restart timeout error" }

\* The per-field test of _is_error_data: some indicator occurs in the
\* lower-cased field.
HasErrorIndicator(field) ==
    \E indicator \in error_indicators : Contains(lower(field), indicator)

(***************************************************************************)
(* Bounds of the model.                                                    *)
(***************************************************************************)
MaxRuns == 2          \* scraper runs against the same store
MaxEntries == 2       \* entries a listing dropdown may show
MaxStoreFaults == 1   \* store calls that fail with a StoreError
MaxCalls == 2         \* calls followed in the adapter and showtime models
MaxYears == 2         \* years the clock can be in when a date label is read

\* Program constants.
max_browser_restarts == 3
max_nav_retries == 3
max_retries == 5
setup_max_retries == 3

(***************************************************************************)
(* The site: names, links and detail pages.                                *)
(***************************************************************************)
\* The programme of the site, in the order of its dropdown menus.  The
\* third movie entry repeats the first title (a second version of the film).
MovieProgramme == <<"Movie A", "Movie B", "Movie A", "Movie B">>
CinemaProgramme == <<"Cinema X">>

Href(name) ==
    CASE name = "Movie A" -> "/movie/a"
      [] name = "Movie B" -> "/movie/b"
      [] name = "Cinema Y" -> "/cinema/y"
      [] OTHER -> "/cinema/x"

\* The entries a dropdown reveals: the programme up to where the menu was
\* rendered when it is read.
Min(a, b) == IF a <= b THEN a ELSE b
Shown(programme) ==
    { SubSeq(programme, 1, k) : k \in 0..Min(MaxEntries, Len(programme)) }

\* What a detail page can show when it is read: the item's content or an
\* anti-bot page.
ContentPages == {"content"}
BlockedPages == {"cloudflare", "captcha", "denied"}
DetailPages == ContentPages \cup BlockedPages

\* document queries of _scrape_movie_details_internal on each page: the
\* genre selector yields 'Unknown' and the synopsis selector '' when the
\* elements are missing, as on an anti-bot page.
GenreText(page) ==
    CASE page = "content" -> "Action"
      [] OTHER -> "Unknown"

SynopsisText(page) ==
    CASE page = "content" -> "A hero\tsaves\n the day | part 2"
      [] OTHER -> ""

AddressText(page) ==
    CASE page = "content" -> "1 Harbour Road,\n Wan Chai"
      [] OTHER -> ""

\* The indicators _check_page_status collects from the page.
PageIndicators(page) ==
    CASE page = "cloudflare" -> {"cloudflare_detected", "verification_message"}
      [] page = "captcha" -> {"captcha_detected"}
      [] page = "denied" -> {"access_denied"}
      [] OTHER -> {"main_content_present"}

\* MovieScraper._check_page_status
check_page_status(page) ==
    LET cloudflare_indicators == PageIndicators(page)
    IN  [ has_cloudflare |-> "cloudflare_detected" \in cloudflare_indicators,
          has_captcha |-> "captcha_detected" \in cloudflare_indicators
                          \/ "verification_message" \in cloudflare_indicators,
          has_error_page |-> "access_denied" \in cloudflare_indicators,
          page_ready |-> "main_content_present" \in cloudflare_indicators ]

\* A page carries a blocking signature when the status check flags it.
IsBlockedStatus(status) ==
    status.has_cloudflare \/ status.has_captcha \/ status.has_error_page

\* The detail pages the status check flags (evaluated once).
FlaggedPages == { page \in DetailPages : IsBlockedStatus(check_page_status(page)) }

(***************************************************************************)
(* MovieScraper._sanitize_csv_text.  "!" stands for the full-width bar     *)
(* U+FF5C that replaces the field delimiter.                               *)
(***************************************************************************)
FullWidthBar == "!"

SanitizeChar(c) ==
    IF c \in {"\n", "\r", "\t"} THEN " "
    ELSE IF c = "|" THEN FullWidthBar
    ELSE c

RECURSIVE ReplaceChars(_)
ReplaceChars(s) ==
    IF Len(s) = 0 THEN ""
    ELSE SanitizeChar(SubSeq(s, 1, 1)) \o ReplaceChars(SubSeq(s, 2, Len(s)))

\* ' '.join(text.split()): runs of blanks collapse to one, none at the ends.
RECURSIVE JoinSplit(_, _, _)
JoinSplit(s, started, pending) ==
    IF Len(s) = 0 THEN ""
    ELSE LET c == SubSeq(s, 1, 1)
             rest == SubSeq(s, 2, Len(s))
         IN  IF c = " " THEN JoinSplit(rest, started, started)
             ELSE (IF pending THEN " " ELSE "") \o c \o JoinSplit(rest, TRUE, FALSE)

sanitize_csv_text(text) ==
    IF text = "" THEN "" ELSE JoinSplit(ReplaceChars(text), FALSE, FALSE)

(***************************************************************************)
(* Detail extraction of one item (the operations the wrappers run under a  *)
(* timeout) and the placeholder records the wrappers return.               *)
(***************************************************************************)
BaseUrl == "https://hkmovie6.com"

Entry(name) == [name |-> name, url |-> BaseUrl \o Href(name)]

\* MovieScraper._scrape_movie_details_internal, when no call raises: the
\* page status is computed and logged, the record is built from the
\* selectors whatever the status says.
scrape_movie_details_internal(movie_name, movie_url, page) ==
    LET status == check_page_status(page)
        category == GenreText(page)
        sanitized_description == sanitize_csv_text(SynopsisText(page))
    IN  [ name |-> movie_name,
          url |-> movie_url,
          category |-> IF category = "" THEN "Unknown" ELSE category,
          description |-> IF sanitized_description = ""
                          THEN "No description available"
                          ELSE sanitized_description ]

\* MovieScraper._scrape_cinema_details_internal, the record it returns.
scrape_cinema_details_internal(cinema_name, cinema_url, page) ==
    LET status == check_page_status(page)
        sanitized_address == sanitize_csv_text(AddressText(page))
    IN  [ name |-> cinema_name,
          url |-> cinema_url,
          address |-> IF sanitized_address = ""
                      THEN "Address not available"
                      ELSE sanitized_address ]

\* The degraded records of scrape_movie_details.  branch is the except
\* clause of the first attempt that is being handled, tag the exit.
movie_placeholder(branch, tag, movie_name, movie_url) ==
    LET texts ==
          CASE tag = "unknown" ->
                 <<"Error", "Error retrieving description">>
            [] tag = "restart_timeout" /\ branch = "timeout" ->
                 <<"Restart Timeout Error", "Browser restart timed out">>
            [] tag = "restart_failed" /\ branch = "timeout" ->
                 <<"Timeout Error", "Timeout error - browser restart failed">>
            [] tag = "restart_timeout" /\ branch = "connection" ->
                 <<"Connection Error - Restart Timeout",
                   "Browser restart timed out after connection error">>
            [] OTHER ->
                 <<"Connection Error", "Connection error - browser restart failed">>
    IN  [ name |-> movie_name, url |-> movie_url,
          category |-> texts[1], description |-> texts[2] ]

\* The degraded records of scrape_cinema_details.
cinema_placeholder(branch, tag, cinema_name, cinema_url) ==
    LET text ==
          CASE tag = "unknown" -> "Error retrieving address"
            [] tag = "restart_timeout" /\ branch = "timeout" ->
                 "Browser restart timed out"
            [] tag = "restart_failed" /\ branch = "timeout" ->
                 "Timeout error - browser restart failed"
            [] tag = "restart_timeout" /\ branch = "connection" ->
                 "Browser restart timed out after connection error"
            [] OTHER -> "Connection error - browser restart failed"
    IN  [ name |-> cinema_name, url |-> cinema_url, address |-> text ]

\* Every text a category, description or address field takes in the model,
\* and those among them that carry an error indicator (evaluated once).
ExitBranches == {"", "timeout", "connection"}
ExitTags == {"unknown", "restart_timeout", "restart_failed"}
FieldTexts ==
    UNION { { scrape_movie_details_internal("", "", page).category,
              scrape_movie_details_internal("", "", page).description,
              scrape_cinema_details_internal("", "", page).address }
            : page \in DetailPages }
    \cup UNION { { movie_placeholder(b, t, "", "").category,
                   movie_placeholder(b, t, "", "").description,
                   cinema_placeholder(b, t, "", "").address }
                 : <<b, t>> \in ExitBranches \X ExitTags }
ErrorFieldTexts == { f \in FieldTexts : HasErrorIndicator(f) }

FieldHasError(field) ==
    IF field \in FieldTexts THEN field \in ErrorFieldTexts
    ELSE HasErrorIndicator(field)

\* MovieScraper._is_error_data(data, data_type)
is_error_data(data, data_type) ==
    IF data_type = "movie"
    THEN FieldHasError(data.category) \/ FieldHasError(data.description)
    ELSE IF data_type = "cinema"
    THEN FieldHasError(data.address)
    ELSE FALSE

\* The records the detail extraction builds, per page (evaluated once).
MovieFieldsOn ==
    [ page \in DetailPages |-> scrape_movie_details_internal("", "", page) ]
CinemaFieldsOn ==
    [ page \in DetailPages |-> scrape_cinema_details_internal("", "", page) ]

placeholder(data_type, branch, tag, name, url) ==
    IF data_type = "movie"
    THEN movie_placeholder(branch, tag, name, url)
    ELSE cinema_placeholder(branch, tag, name, url)

internal_result(data_type, name, url, page) ==
    IF data_type = "movie"
    THEN [MovieFieldsOn[page] EXCEPT !.name = name, !.url = url]
    ELSE [CinemaFieldsOn[page] EXCEPT !.name = name, !.url = url]

\* Exceptions a page operation can raise and exceptions _restart_browser
\* can raise (its own navigation failure, or a failed browser launch).
ErrConnection == "[Errno 111] Connect call failed ('127.0.0.1', 9222)"
ErrBlockedConnection == "Cloudflare challenge: connection reset by peer"
ErrBlockedOnly == "403 Access denied"
ErrOther == "list index out of range"
OpErrorTexts == {ErrConnection, ErrBlockedConnection, ErrBlockedOnly, ErrOther}

ErrRestartNavigation == "Browser restart failed - could not navigate to homepage"
ErrRestartLaunch ==
    "Failed to initialize browser after 3 attempts. Last error: connection refused"
RestartErrorTexts == {ErrRestartNavigation, ErrRestartLaunch}

\* Outcomes of one awaited call under asyncio.wait_for.
AttemptOutcomes ==
    [kind : {"return"}, arg : DetailPages]
    \cup { [kind |-> "timeout", arg |-> ""] }
    \cup [kind : {"raise"}, arg : OpErrorTexts]

RestartOutcomes ==
    { [kind |-> "return", arg |-> ""], [kind |-> "timeout", arg |-> ""] }
    \cup [kind : {"raise"}, arg : RestartErrorTexts]

\* The exception texts of the model that _is_connection_error accepts
\* (evaluated once).
ConnectionErrorTexts ==
    { t \in OpErrorTexts \cup RestartErrorTexts : is_connection_error(t) }

\* Variant: every exception is answered by a browser restart.
needs_restart_always(error_text) == TRUE

\* `except Exception as e: if self._is_connection_error(e)` of the wrappers:
\* the failure is answered by a browser restart.
needs_restart(error_text) == error_text \in ConnectionErrorTexts

(***************************************************************************)
(* Record store.  A table is the sequence of its rows, a row's id is its   *)
(* position.                                                               *)
(***************************************************************************)
RowsNamed(table, name) == { i \in 1..Len(table) : table[i].name = name }

\* SupabaseClient.get_movie_by_name / get_cinema_by_name: the id of the
\* first row with that name, 0 for None; None as well when the query fails.
get_by_name(table, name, query_ok) ==
    IF query_ok /\ RowsNamed(table, name) # {}
    THEN CHOOSE i \in RowsNamed(table, name) : \A j \in RowsNamed(table, name) : i <= j
    ELSE 0

\* exists_by_name (movie_exists / cinema_exists): a failed query reports
\* "not found", as the lookups of the adapter do.
exists_by_name(table, name, query_ok) ==
    query_ok /\ RowsNamed(table, name) # {}

\* insert (add_movie / add_cinema): unconditional insert of one row.
insert_row(table, row) == Append(table, row)

(***************************************************************************)
(* Browser launch and navigation, as the run coordinator sees them.        *)
(***************************************************************************)
LaunchOutcomes == {"ok", "timeout", "connection_error", "other_error"}

LaunchErrorText(outcome, attempt_no) ==
    CASE outcome = "timeout" ->
           "Browser startup timed out after "
           \o ToString(30 + attempt_no * 10) \o " seconds"
      [] outcome = "connection_error" -> "connection refused"
      [] OTHER -> "chrome executable not found"

\* MovieScraper._setup_browser: launches[k] is what the k-th call of
\* zd.start does.  The result says whether a browser is up and carries the
\* message of the exception raised otherwise.
RECURSIVE setup_from(_, _, _)
setup_from(launches, attempt_no, last_error) ==
    IF attempt_no >= setup_max_retries
    THEN [ok |-> FALSE, attempts |-> attempt_no, error |-> last_error]
    ELSE LET outcome == launches[attempt_no + 1]
             text == LaunchErrorText(outcome, attempt_no)
         IN  CASE outcome = "ok" ->
                    [ok |-> TRUE, attempts |-> attempt_no + 1, error |-> ""]
               [] outcome = "timeout" ->
                    setup_from(launches, attempt_no + 1, text)
               [] outcome = "connection_error" ->
                    IF attempt_no < setup_max_retries - 1
                    THEN setup_from(launches, attempt_no + 1, text)
                    ELSE [ok |-> FALSE, attempts |-> attempt_no + 1, error |-> text]
               [] OTHER ->
                    [ok |-> FALSE, attempts |-> attempt_no + 1, error |-> text]

setup_browser(launches) ==
    LET r == setup_from(launches, 0, "")
    IN  [ ok |-> r.ok, attempts |-> r.attempts,
          error |-> IF r.ok THEN ""
                    ELSE "Failed to initialize browser after "
                         \o ToString(setup_max_retries)
                         \o " attempts. Last error: " \o r.error ]

\* _setup_browser over every course the launches can take, and the run
\* exceptions that is_browser_error accepts (evaluated once).
ErrNavigation == "Failed to navigate to homepage after all retry attempts"
SetupResults ==
    [ launches \in [1..setup_max_retries -> LaunchOutcomes] |->
        setup_browser(launches) ]
RunErrorTexts ==
    { SetupResults[l].error : l \in DOMAIN SetupResults } \cup {ErrNavigation}
BrowserErrorTexts == { t \in RunErrorTexts : is_browser_error(t) }

\* Variant: every exception of the run is answered by a new session.
restarts_run_always(error_msg) == TRUE

\* `if is_browser_error(e)` of run_scraper_with_retry: the run is started
\* again with a new browser.
restarts_run(error_msg) == error_msg \in BrowserErrorTexts

\* A page.evaluate that raises instead of returning a value.
Raises == "<raises>"

\* Python: lang_attr and lang_attr.startswith("en")
starts_with_en(lang_attr) ==
    /\ lang_attr # Raises
    /\ Len(lang_attr) >= 2
    /\ SubSeq(lang_attr, 1, 2) = "en"

\* What the page does on one turn of the loop of _handle_language_switching:
\* the lang attribute it shows, what the click on the switcher does, and
\* the lang attribute it shows after the click.
EnglishTurn == [lang |-> "en-US", click |-> "missing", updated |-> "en-US"]
SwitchedTurn == [lang |-> "zh-HK", click |-> "clicked", updated |-> "en"]
LangUnreadableTurn == [lang |-> Raises, click |-> "missing", updated |-> Raises]
NotSwitchedTurn == [lang |-> "zh-HK", click |-> "clicked", updated |-> "zh-HK"]
NoSwitcherTurn == [lang |-> "", click |-> "missing", updated |-> ""]
ClickRaisesTurn == [lang |-> "zh-HK", click |-> Raises, updated |-> "zh-HK"]
UpdatedUnreadableTurn == [lang |-> "zh-HK", click |-> "clicked", updated |-> Raises]

language_max_retries == 5

\* The loop of _handle_language_switching from turn attempt_no on, with
\* the read of final_lang after it: "True", "False", or "raise" for an
\* exception that leaves the loop.
RECURSIVE switch_from(_, _, _)
switch_from(turns, attempt_no, limit) ==
    IF attempt_no + 1 > Len(turns) THEN "False"
    ELSE LET turn == turns[attempt_no + 1]
         IN  IF attempt_no >= limit
             THEN IF turn.lang = Raises THEN "raise" ELSE "False"
             ELSE IF turn.lang = Raises THEN "raise"
             ELSE IF starts_with_en(turn.lang) THEN "True"
             ELSE IF /\ turn.click = "clicked"
                     /\ starts_with_en(turn.updated)
                  THEN "True"
             ELSE switch_from(turns, attempt_no + 1, limit)

\* Variant: one more turn of the loop.
handle_language_switching_six(turns) ==
    switch_from(turns, 0, language_max_retries + 1) = "True"

\* MovieScraper._handle_language_switching
handle_language_switching(turns) ==
    switch_from(turns, 0, language_max_retries) = "True"

\* MovieScraper.navigate_to_homepage.  A _check_page_status that raised
\* returns a dictionary without the flags, and .get() gives None for them.
navigate_to_homepage(home) ==
    IF home.get # "page" THEN FALSE
    ELSE LET page_status ==
                 IF home.status_raises
                 THEN [has_captcha |-> FALSE, has_error_page |-> FALSE]
                 ELSE check_page_status(home.page)
         IN  IF page_status.has_captcha THEN FALSE
             ELSE IF page_status.has_error_page THEN FALSE
             ELSE handle_language_switching(home.turns)

Homepage(page, turns) ==
    [get |-> "page", page |-> page, status_raises |-> FALSE, turns |-> turns]

\* What the homepage shows when it is loaded: in English, switched to
\* English by the first click, never switched, a CAPTCHA, an access-denied
\* page, and a browser.get that raised.
HomepageConds ==
    { Homepage("content", <<EnglishTurn>>),
      Homepage("content", <<SwitchedTurn>>),
      Homepage("content",
               [k \in 1..(language_max_retries + 1) |-> NotSwitchedTurn]),
      Homepage("captcha", <<EnglishTurn>>),
      Homepage("denied", <<EnglishTurn>>),
      [Homepage("content", <<EnglishTurn>>) EXCEPT !.get = "error"] }

\* The dropdown of a listing page: whether the menu control is there and
\* the entries it reveals.
MovieDropdowns == [clickable : BOOLEAN, names : Shown(MovieProgramme)]
CinemaDropdowns == [clickable : BOOLEAN, names : Shown(CinemaProgramme)]

\* MovieScraper.scrape_movie_showings
scrape_movie_showings(dropdown) ==
    IF ~dropdown.clickable THEN <<>>
    ELSE [i \in 1..Len(dropdown.names) |-> Entry(dropdown.names[i])]

\* One pass of the retry loop of scrape_cinemas over the dropdown it finds.
cinemas_in(dropdown) ==
    IF ~dropdown.clickable THEN <<>>
    ELSE [i \in 1..Len(dropdown.names) |-> Entry(dropdown.names[i])]

\* MovieScraper.scrape_cinemas: up to cinemas_max_retries passes, the first
\* non-empty reading is returned.
cinemas_max_retries == 3

RECURSIVE scrape_cinemas_from(_, _)
scrape_cinemas_from(dropdowns, attempt_no) ==
    IF attempt_no >= cinemas_max_retries THEN <<>>
    ELSE IF cinemas_in(dropdowns[attempt_no + 1]) # <<>>
    THEN cinemas_in(dropdowns[attempt_no + 1])
    ELSE scrape_cinemas_from(dropdowns, attempt_no + 1)

scrape_cinemas(dropdowns) == scrape_cinemas_from(dropdowns, 0)

(***************************************************************************)
(* State.                                                                  *)
(***************************************************************************)
VARIABLES
    \* main.py
    pc,                     \* position of run_scraper_with_retry
    shutdown_requested,     \* the global flag set by signal_handler
    browser_restart_count,
    nav_attempt,            \* homepage navigation attempts made
    attempt,                \* listing attempts made in the current loop
    movies, cinemas,        \* the listings (movies.csv / cinemas.csv)
    retval,                 \* "pending", "True" or "False"
    run,                    \* which run against the store this is
    \* scrape_all_movie_details / scrape_all_cinema_details
    idx,                    \* 1-based position in the listing
    movies_processed, movies_skipped, movies_added,
    cinemas_processed, cinemas_skipped, cinemas_added,
    \* scrape_movie_details / scrape_cinema_details for the current item
    wpc,                    \* position in the wrapper
    wbranch,                \* except clause being handled
    wres,                   \* the record returned
    wpage,                  \* history: the page a returned record was read on
    wtrace,                 \* history: the awaited calls and their outcomes
    tracing,                \* whether wtrace is being recorded
    \* the record store
    db_movies, db_cinemas,
    store_faults,           \* store calls that failed so far
    last_item,              \* history: how the last finished item was handled
    db_showtimes,
    \* calls of the store adapter, the showtime extraction and the utilities
    now,                    \* calls made so far; the clock datetime.now() reads
    today,                  \* date.today()
    call,                   \* history: the last call and its arguments
    result,                 \* history: what the last call returned
    \* the browser sessions of a run
    browser,                \* scraper.browser: 0 for None, else a session
    sessions,               \* every session launched so far and its state
    spc,                    \* position inside the session procedures
    restart_no,             \* which _restart_browser call of the item: 0-2
    setup_attempt,          \* launch attempts made by _setup_browser
    setup_error,            \* last_error of _setup_browser
    nav_ok,                 \* history: what the last navigation returned
    startup_failed,         \* history: _setup_browser has raised
    page_fresh,             \* history: no listing was read off the homepage
                            \* since it was last loaded
    \* the detail table of the pass in hand
    output_file,            \* the rows of the file, <<>> while there is none
    \* schedule.py
    scheduler               \* the two jobs of the BlockingScheduler

coordVars == <<pc, shutdown_requested, browser_restart_count, nav_attempt,
               attempt, movies, cinemas, retval, run>>
movieCounters == <<movies_processed, movies_skipped, movies_added>>
cinemaCounters == <<cinemas_processed, cinemas_skipped, cinemas_added>>
wrapVars == <<wpc, wbranch, wres, wpage, wtrace, tracing>>
storeVars == <<db_movies, db_cinemas, store_faults>>
adapterVars == <<db_showtimes, now, today, call, result>>
sessionButPage == <<browser, sessions, spc, restart_no, setup_attempt,
                    setup_error, nav_ok, startup_failed>>
sessionVars == <<sessionButPage, page_fresh>>
pipelineVars == <<coordVars, idx, movieCounters, cinemaCounters, wrapVars,
                  last_item, sessionVars, output_file, scheduler>>
programVars == <<coordVars, idx, movieCounters, cinemaCounters, wrapVars,
                 storeVars, last_item, adapterVars, sessionVars, output_file>>
vars == <<programVars, scheduler>>

NoResult == [name |-> "", url |-> ""]
NoItem == [name |-> "", data_type |-> "", degraded |-> FALSE,
           error_data |-> FALSE, add_called |-> FALSE, added |-> FALSE,
           blocked |-> FALSE]
NoCall == [op |-> ""]
NoValue == "-"
StartDay == [y |-> 2023, m |-> 12, d |-> 31]

\* The pipeline model is run on cinema pages that show no date cells
\* (_scrape_showtimes_for_cinema returns at `if not date_buttons`); the
\* showtime extraction is followed in SpecShow.
AdapterIdle ==
    /\ db_showtimes = <<>>
    /\ now = 0
    /\ today = StartDay
    /\ call = NoCall
    /\ result = NoValue

\* The run-level and item-level models do not follow the sessions: every
\* launch and stop is followed in SpecSession.
SessionIdle ==
    /\ browser = 0
    /\ sessions = <<>>
    /\ spc = "coord"
    /\ restart_no = 0
    /\ setup_attempt = 0
    /\ setup_error = ""
    /\ nav_ok = "none"
    /\ startup_failed = FALSE
    /\ page_fresh = FALSE

\* No detail table has been written yet.
NoFile == <<>>

\* The program is run by hand (main.py), not under the scheduler.
NotScheduled == [until_daily |-> 0, initial_scrape |-> "none",
                 movie_scraper_job |-> 0, fired |-> 0, skipped |-> 0]

\* The detail tables (movie_details.csv, cinema_details.csv) as their rows.
\* `with open(output_file, 'w') ...: writer.writerow([...header...])`
MovieCsvHeader == <<"name", "url", "category", "description">>
CinemaCsvHeader == <<"name", "url", "address">>
create_output(header) == <<header>>

\* `writer.writerow([details['name'], details['url'], ...])`
movie_csv_row(details) ==
    <<details.name, details.url, details.category, details.description>>
cinema_csv_row(details) == <<details.name, details.url, details.address>>

\* Variant: the row is written to a file opened with 'w'.
append_row_truncating(rows, row) == <<row>>

\* `with open(output_file, 'a') ...: writer.writerow(...); csvfile.flush()`
append_row(rows, row) == Append(rows, row)

Init ==
    /\ pc = "top"
    /\ shutdown_requested = FALSE
    /\ browser_restart_count = 0
    /\ nav_attempt = 0
    /\ attempt = 0
    /\ movies = <<>>
    /\ cinemas = <<>>
    /\ retval = "pending"
    /\ run = 1
    /\ idx = 0
    /\ movies_processed = 0 /\ movies_skipped = 0 /\ movies_added = 0
    /\ cinemas_processed = 0 /\ cinemas_skipped = 0 /\ cinemas_added = 0
    /\ wpc = "idle"
    /\ wbranch = ""
    /\ wres = NoResult
    /\ wpage = ""
    /\ wtrace = <<>>
    /\ tracing = FALSE
    /\ db_movies = <<>>
    /\ db_cinemas = <<>>
    /\ store_faults = 0
    /\ last_item = NoItem
    /\ AdapterIdle
    /\ SessionIdle
    /\ scheduler = NotScheduled
    /\ output_file = NoFile

(***************************************************************************)
(* main.py: signal_handler and run_scraper_with_retry.                     *)
(***************************************************************************)
signal_handler ==
    /\ ~shutdown_requested
    /\ pc # "returned"
    /\ shutdown_requested' = TRUE
    /\ UNCHANGED <<pc, browser_restart_count, nav_attempt, attempt, movies,
                   cinemas, retval, run, idx, movieCounters, cinemaCounters,
                   wrapVars, storeVars, last_item>>
    /\ UNCHANGED adapterVars
    /\ UNCHANGED sessionVars
    /\ UNCHANGED scheduler
    /\ UNCHANGED output_file

\* Variant: the checkpoints do not read the flag.
shutdown_checkpoint_ignored(flag) == FALSE

\* `if shutdown_requested: return False` at the top of the restart loop and
\* of each turn of the navigation and listing loops.
shutdown_checkpoint(flag) == flag

\* `return v` from inside run_scraper_with_retry.
Return(v) == pc' = "returned" /\ retval' = v

\* The `except Exception as e` clause of the restart loop.
HandleRunException(error_msg) ==
    IF restarts_run(error_msg)
    THEN /\ browser_restart_count' = browser_restart_count + 1
         /\ IF browser_restart_count + 1 <= max_browser_restarts
            THEN pc' = "top" /\ retval' = retval
            ELSE Return("False")
    ELSE /\ browser_restart_count' = browser_restart_count
         /\ Return("False")

\* Top of the restart loop down to the end of MovieScraperSync.__enter__.
StartSession ==
    /\ pc = "top"
    /\ IF \/ browser_restart_count > max_browser_restarts
          \/ shutdown_checkpoint(shutdown_requested)
       THEN /\ Return("False")
            /\ UNCHANGED <<browser_restart_count, nav_attempt>>
       ELSE \E launches \in [1..setup_max_retries -> LaunchOutcomes] :
              LET started == SetupResults[launches]
              IN  IF started.ok
                  THEN /\ pc' = "nav"
                       /\ nav_attempt' = 0
                       /\ UNCHANGED <<retval, browser_restart_count>>
                  ELSE /\ HandleRunException(started.error)
                       /\ UNCHANGED nav_attempt
    /\ UNCHANGED <<shutdown_requested, attempt, movies, cinemas, run, idx,
                   movieCounters, cinemaCounters, wrapVars, storeVars,
                   last_item>>
    /\ UNCHANGED adapterVars
    /\ UNCHANGED sessionVars
    /\ UNCHANGED scheduler
    /\ UNCHANGED output_file

\* One iteration of the homepage navigation loop, and the raise after it.
NavigationAttempt ==
    /\ pc = "nav"
    /\ IF shutdown_checkpoint(shutdown_requested)
       THEN /\ Return("False")
            /\ UNCHANGED page_fresh
            /\ UNCHANGED <<browser_restart_count, nav_attempt, attempt, movies>>
       ELSE /\ page_fresh' = TRUE
            /\ \E cond \in HomepageConds :
              IF navigate_to_homepage(cond)
              THEN /\ pc' = "list_movies"
                   /\ attempt' = 0
                   /\ movies' = <<>>
                   /\ nav_attempt' = 0
                   /\ UNCHANGED <<retval, browser_restart_count>>
              ELSE /\ nav_attempt' = nav_attempt + 1
                   /\ UNCHANGED <<attempt, movies>>
                   /\ IF nav_attempt + 1 < max_nav_retries
                      THEN UNCHANGED <<pc, retval, browser_restart_count>>
                      ELSE HandleRunException(ErrNavigation)
    /\ UNCHANGED <<shutdown_requested, cinemas, run, idx, movieCounters,
                   cinemaCounters, wrapVars, storeVars, last_item>>
    /\ UNCHANGED adapterVars
    /\ UNCHANGED sessionButPage
    /\ UNCHANGED scheduler
    /\ UNCHANGED output_file

\* Variant: the run goes on with an empty movie listing.
abort_without_movies_never(found) == FALSE

\* `if not movies: ... return False` after the movie listing loop.
abort_without_movies(found) == found = <<>>

\* One iteration of the movie listing loop, and the code after the loop.
MovieListingAttempt ==
    /\ pc = "list_movies"
    /\ IF shutdown_checkpoint(shutdown_requested)
       THEN /\ Return("False")
            /\ UNCHANGED page_fresh
            /\ UNCHANGED <<attempt, movies>>
       ELSE /\ page_fresh' = FALSE
            /\ \E dropdown \in MovieDropdowns :
              LET found == scrape_movie_showings(dropdown)
              IN  /\ movies' = found
                  /\ IF found = <<>> /\ attempt + 1 < max_retries
                     THEN /\ attempt' = attempt + 1
                          /\ UNCHANGED <<pc, retval>>
                     ELSE IF abort_without_movies(found)
                     THEN /\ attempt' = attempt + 1
                          /\ Return("False")
                     ELSE /\ pc' = "list_cinemas"
                          /\ attempt' = 0
                          /\ UNCHANGED retval
    /\ UNCHANGED <<shutdown_requested, browser_restart_count, nav_attempt,
                   cinemas, run, idx, movieCounters, cinemaCounters, wrapVars,
                   storeVars, last_item>>
    /\ UNCHANGED adapterVars
    /\ UNCHANGED sessionButPage
    /\ UNCHANGED scheduler
    /\ UNCHANGED output_file

\* Variant: the cinema pass is run first.
pass_after_listings_cinemas_first(movies_found, cinemas_found) ==
    IF cinemas_found # <<>> THEN "cinema_details"
    ELSE IF movies_found # <<>> THEN "movie_details"
    ELSE "returned"

\* `if movies: scraper.scrape_all_movie_details(...)` and, after it,
\* `if cinemas: scraper.scrape_all_cinema_details(...)`: the pass the
\* coordinator enters when the listings are in.
pass_after_listings(movies_found, cinemas_found) ==
    IF movies_found # <<>> THEN "movie_details"
    ELSE IF cinemas_found # <<>> THEN "cinema_details"
    ELSE "returned"

\* One iteration of the cinema listing loop, and the code after the loop up
\* to the call of scrape_all_movie_details.  The detail passes catch every
\* exception, so the restart loop is not entered again once they start and
\* browser_restart_count is not read any more: it is dropped there.
CinemaListingAttempt ==
    /\ pc = "list_cinemas"
    /\ IF shutdown_checkpoint(shutdown_requested)
       THEN /\ Return("False")
            /\ UNCHANGED <<attempt, cinemas, idx, movieCounters,
                           browser_restart_count, output_file>>
       ELSE \E dropdowns \in [1..cinemas_max_retries -> CinemaDropdowns] :
              LET found == scrape_cinemas(dropdowns)
              IN  /\ cinemas' = found
                  /\ IF found # <<>> \/ attempt + 1 >= max_retries
                     THEN /\ attempt' = 0
                          /\ browser_restart_count' = 0
                          /\ pc' = pass_after_listings(movies, found)
                          /\ retval' = IF movies = <<>> /\ found = <<>>
                                       THEN "True" ELSE retval
                          /\ idx' = 1
                          /\ movies_processed' = 0
                          /\ movies_skipped' = 0
                          /\ movies_added' = 0
                          /\ output_file' =
                               IF movies # <<>>
                               THEN create_output(MovieCsvHeader)
                               ELSE IF found # <<>>
                               THEN create_output(CinemaCsvHeader)
                               ELSE output_file
                     ELSE /\ attempt' = attempt + 1
                          /\ UNCHANGED <<pc, retval, idx, movieCounters,
                                         browser_restart_count, output_file>>
    /\ UNCHANGED <<shutdown_requested, nav_attempt, movies, run,
                   cinemaCounters, wrapVars, storeVars, last_item>>
    /\ UNCHANGED adapterVars
    /\ UNCHANGED sessionVars
    /\ UNCHANGED scheduler

(***************************************************************************)
(* scrape_movie_details / scrape_cinema_details: the retry/recovery        *)
(* wrapper around the detail extraction of one item.                       *)
(***************************************************************************)
InMoviePass == pc = "movie_details"
InCinemaPass == pc = "cinema_details"
DataType == IF InMoviePass THEN "movie" ELSE "cinema"
Listing == IF InMoviePass THEN movies ELSE cinemas
Item == Listing[idx]

Event(op, outcome) == [op |-> op, out |-> outcome.kind, arg |-> outcome.arg]

\* Variant: the wrapper lets the exception out instead of returning a record.
wrapper_exit_raising(data_type, branch, tag, name, url) ==
    [pc |-> "raised", record |-> [name |-> "", url |-> ""]]

\* `return {...}` of a degraded record from the wrapper.
wrapper_exit(data_type, branch, tag, name, url) ==
    [pc |-> "done", record |-> placeholder(data_type, branch, tag, name, url)]

\* Variant: the wrapper falls through to the placeholder although the
\* detail extraction returned.
wrapper_return_placeholder(data_type, name, url, page) ==
    wrapper_exit(data_type, "connection", "restart_failed", name, url)

\* `return result` / `return await asyncio.wait_for(..._internal(...))`: the
\* wrapper hands back what the detail extraction built.
wrapper_return(data_type, name, url, page) ==
    [pc |-> "done", record |-> internal_result(data_type, name, url, page)]

\* Variant: after the second restart the wrapper is back at the retry that
\* may ask for another restart.
after_restart_loop(stage) == "try2"

\* Where the wrapper goes when an awaited _restart_browser call returned:
\* the retry after the first restart, the last attempt after the second.
after_restart(stage) == IF stage = "restart1" THEN "try2" ELSE "try3"

Exit(branch, tag) ==
    LET e == wrapper_exit(DataType, branch, tag, Item.name, Item.url)
    IN  wpc' = e.pc /\ wres' = e.record /\ wbranch' = branch /\ wpage' = ""

Record(trace, event) == IF tracing THEN Append(trace, event) ELSE trace

\* A store call may fail while fewer than MaxStoreFaults calls have failed.
CallOutcomes(faults) == IF faults < MaxStoreFaults THEN BOOLEAN ELSE {TRUE}
Fault(ok) == IF ok THEN 0 ELSE 1

\* Variant: the showtimes are read whenever the cinema record is valid.
scrapes_showtimes_unlooked(cinema_id, cinema_result) ==
    ~is_error_data(cinema_result, "cinema")

\* The gate of _scrape_cinema_details_internal before
\* _scrape_showtimes_for_cinema: the cinema was found in the store
\* (`if not cinema_data: return {...}`) and the record built from the page
\* is not error data.
scrapes_showtimes(cinema_id, cinema_result) ==
    cinema_id # 0 /\ ~is_error_data(cinema_result, "cinema")

\* The end of _scrape_cinema_details_internal once the address is read:
\* get_cinema_by_name, then the showtimes of the cinema or nothing.  The
\* call that ended the extraction is kept in `call`.
CinemaLookup(cinema_result) ==
    \E lookup_ok \in CallOutcomes(store_faults) :
       LET cinema_id == get_by_name(db_cinemas, cinema_result.name, lookup_ok)
       IN /\ store_faults' = store_faults + Fault(lookup_ok)
          /\ call' = [ op |-> IF scrapes_showtimes(cinema_id, cinema_result)
                              THEN "_scrape_showtimes_for_cinema"
                              ELSE "get_cinema_by_name",
                       cinema_name |-> cinema_result.name ]

\* One awaited _scrape_*_details_internal call: the first attempt, the retry
\* after the first restart or the attempt after the second restart.
WrapperAttempt ==
    /\ InMoviePass \/ InCinemaPass
    /\ wpc \in {"try1", "try2", "try3"}
    /\ \E o \in AttemptOutcomes :
         /\ wtrace' = Record(wtrace, Event("attempt", o))
         /\ UNCHANGED tracing
         /\ CASE o.kind = "return" ->
                   LET r == wrapper_return(DataType, Item.name, Item.url, o.arg)
                   IN  /\ wpc' = r.pc
                       /\ wres' = r.record
                       /\ wpage' = o.arg
                       /\ UNCHANGED wbranch
                       /\ IF InCinemaPass
                          THEN CinemaLookup(internal_result("cinema", Item.name,
                                                            Item.url, o.arg))
                          ELSE UNCHANGED <<call, store_faults>>
              [] o.kind = "timeout" ->
                   /\ UNCHANGED <<call, store_faults>>
                   /\ IF wpc = "try1"
                      THEN wpc' = "restart1" /\ wbranch' = "timeout"
                           /\ UNCHANGED <<wres, wpage>>
                      ELSE IF wpc = "try2"
                      THEN Exit(wbranch, "restart_timeout")
                      ELSE Exit(wbranch, "restart_failed")
              [] OTHER ->
                   /\ UNCHANGED <<call, store_faults>>
                   /\ IF wpc = "try1"
                      THEN IF needs_restart(o.arg)
                           THEN wpc' = "restart1" /\ wbranch' = "connection"
                                /\ UNCHANGED <<wres, wpage>>
                           ELSE Exit("", "unknown")
                      ELSE IF wpc = "try2" /\ needs_restart(o.arg)
                      THEN wpc' = "restart2" /\ UNCHANGED <<wres, wbranch, wpage>>
                      ELSE Exit(wbranch, "restart_failed")
    /\ UNCHANGED <<coordVars, idx, movieCounters, cinemaCounters, db_movies,
                   db_cinemas, last_item>>
    /\ UNCHANGED <<db_showtimes, now, today, result>>
    /\ UNCHANGED sessionVars
    /\ UNCHANGED scheduler
    /\ UNCHANGED output_file

\* Variant: the wrapper goes on to the retry whatever the restart did.
restart_completed_always(kind) == TRUE

\* `await asyncio.wait_for(self._restart_browser(), timeout=30.0)`: the
\* statements after it run only when the call returned.
restart_completed(kind) == kind = "return"

\* One awaited _restart_browser call under its 30 second timeout.
WrapperRestart ==
    /\ InMoviePass \/ InCinemaPass
    /\ wpc \in {"restart1", "restart2"}
    /\ \E o \in RestartOutcomes :
         /\ wtrace' = Record(wtrace, Event("restart", o))
         /\ UNCHANGED tracing
         /\ CASE restart_completed(o.kind) ->
                   /\ wpc' = after_restart(wpc)
                   /\ UNCHANGED <<wres, wbranch, wpage>>
              [] o.kind = "timeout" ->
                   IF wpc = "restart1"
                   THEN Exit(wbranch, "restart_timeout")
                   ELSE Exit(wbranch, "restart_failed")
              [] OTHER ->
                   IF wpc = "restart1" /\ needs_restart(o.arg)
                   THEN wpc' = "restart2" /\ UNCHANGED <<wres, wbranch, wpage>>
                   ELSE Exit(wbranch, "restart_failed")
    /\ UNCHANGED <<coordVars, idx, movieCounters, cinemaCounters, storeVars,
                   last_item>>
    /\ UNCHANGED adapterVars
    /\ UNCHANGED sessionVars
    /\ UNCHANGED scheduler
    /\ UNCHANGED output_file

\* History read off the trace of the item in hand.
IsAttempt(e) == e.op = "attempt"
IsRestart(e) == e.op = "restart"
Attempts(trace) == Len(SelectSeq(trace, IsAttempt))
Restarts(trace) == Len(SelectSeq(trace, IsRestart))

\* The wrapper returned what a detail extraction built / a degraded record.
Succeeded == wpc = "done" /\ wpage # ""
Degraded == wpc = "done" /\ wpage = ""
FromBlockedPage == Succeeded /\ wpage \in FlaggedPages

(***************************************************************************)
(* scrape_all_movie_details                                                *)
(***************************************************************************)
\* Variant: the existence check is ignored.
skip_existing_never(exists) == FALSE

\* `if self.db_client.movie_exists(movie_name): ... continue`
skip_existing(exists) == exists

\* The counter statements of one turn of the movie loop: a movie found in
\* the store is counted as skipped and nothing else (`continue`), any other
\* movie as processed, and as added when add_movie returned an id.
MovieCounts ==
    [ processed |-> movies_processed, skipped |-> movies_skipped,
      added |-> movies_added ]

\* Variant: a skipped movie is counted as processed as well.
count_movie_all(counts, skipped, added) ==
    IF skipped
    THEN [counts EXCEPT !.skipped = @ + 1, !.processed = @ + 1]
    ELSE [counts EXCEPT !.processed = @ + 1,
                        !.added = @ + (IF added THEN 1 ELSE 0)]

count_movie(counts, skipped, added) ==
    IF skipped
    THEN [counts EXCEPT !.skipped = @ + 1]
    ELSE [counts EXCEPT !.processed = @ + 1,
                        !.added = @ + (IF added THEN 1 ELSE 0)]

SetMovieCounts(counts) ==
    /\ movies_processed' = counts.processed
    /\ movies_skipped' = counts.skipped
    /\ movies_added' = counts.added

\* scrape_all_movie_details returns (its locals are gone) and
\* run_scraper_with_retry goes on to the cinema pass or returns.
AfterMoviePass ==
    /\ movies_processed' = 0 /\ movies_skipped' = 0 /\ movies_added' = 0
    /\ cinemas_processed' = 0 /\ cinemas_skipped' = 0 /\ cinemas_added' = 0
    /\ IF cinemas # <<>>
       THEN /\ pc' = "cinema_details"
            /\ idx' = 1
            /\ output_file' = create_output(CinemaCsvHeader)
            /\ UNCHANGED retval
       ELSE /\ Return("True")
            /\ idx' = 0
            /\ UNCHANGED output_file

\* scrape_all_cinema_details returns and run_scraper_with_retry returns True.
AfterCinemaPass ==
    /\ cinemas_processed' = 0 /\ cinemas_skipped' = 0 /\ cinemas_added' = 0
    /\ idx' = 0
    /\ UNCHANGED output_file
    /\ Return("True")

\* Head of the loop over the listed movies: the existence check and either
\* the skip or the start of the detail extraction; after the last movie,
\* the summary and the return to the coordinator.
MovieLoopStep ==
    /\ InMoviePass
    /\ wpc = "idle"
    /\ last_item' = NoItem
    /\ IF idx > Len(movies)
       THEN /\ AfterMoviePass
            /\ UNCHANGED <<wrapVars, storeVars>>
       ELSE \E query_ok \in CallOutcomes(store_faults) :
              /\ store_faults' = store_faults + Fault(query_ok)
              /\ UNCHANGED <<db_movies, db_cinemas, pc, retval, cinemaCounters,
                             output_file>>
              /\ IF skip_existing(exists_by_name(db_movies, movies[idx].name, query_ok))
                 THEN /\ SetMovieCounts(count_movie(MovieCounts, TRUE, FALSE))
                      /\ idx' = idx + 1
                      /\ UNCHANGED wrapVars
                 ELSE /\ wpc' = "try1"
                      /\ UNCHANGED <<idx, movieCounters, wbranch, wres, wpage,
                                     wtrace, tracing>>
    /\ UNCHANGED <<shutdown_requested, browser_restart_count, nav_attempt,
                   attempt, movies, cinemas, run>>
    /\ UNCHANGED adapterVars
    /\ UNCHANGED sessionVars
    /\ UNCHANGED scheduler

\* The row add_movie inserts; from_blocked is history (whether the page it
\* was read on carried a blocking signature).
MovieRow(details, page) ==
    [ name |-> details.name, url |-> details.url,
      category |-> details.category, description |-> details.description,
      from_blocked |-> page \in FlaggedPages ]

\* The rest of the loop body once scrape_movie_details is back: the error
\* guard, the store write, the CSV row and the counters.  An exception out of
\* the body ends the pass in the `except` of scrape_all_movie_details.
MovieItemFinish ==
    /\ InMoviePass
    /\ wpc \in {"done", "raised"}
    /\ wpc' = "idle" /\ wbranch' = "" /\ wres' = NoResult /\ wpage' = ""
    /\ wtrace' = <<>> /\ UNCHANGED tracing
    /\ IF wpc = "raised"
       THEN /\ AfterMoviePass
            /\ last_item' = NoItem
            /\ UNCHANGED storeVars
       ELSE /\ UNCHANGED <<pc, retval, cinemaCounters>>
            /\ idx' = idx + 1
            /\ output_file' = append_row(output_file, movie_csv_row(wres))
            /\ UNCHANGED db_cinemas
            /\ IF is_error_data(wres, "movie")
               THEN /\ UNCHANGED <<db_movies, store_faults>>
                    /\ SetMovieCounts(count_movie(MovieCounts, FALSE, FALSE))
                    /\ last_item' =
                         [ name |-> Item.name, data_type |-> "movie",
                           degraded |-> Degraded, error_data |-> TRUE,
                           add_called |-> FALSE, added |-> FALSE,
                           blocked |-> FromBlockedPage ]
               ELSE \E write_ok \in CallOutcomes(store_faults) :
                      /\ store_faults' = store_faults + Fault(write_ok)
                      /\ db_movies' = IF write_ok
                                      THEN insert_row(db_movies,
                                             MovieRow(wres, wpage))
                                      ELSE db_movies
                      /\ SetMovieCounts(count_movie(MovieCounts, FALSE, write_ok))
                      /\ last_item' =
                           [ name |-> Item.name, data_type |-> "movie",
                             degraded |-> Degraded, error_data |-> FALSE,
                             add_called |-> TRUE, added |-> write_ok,
                             blocked |-> FromBlockedPage ]
    /\ UNCHANGED <<shutdown_requested, browser_restart_count, nav_attempt,
                   attempt, movies, cinemas, run>>
    /\ UNCHANGED adapterVars
    /\ UNCHANGED sessionVars
    /\ UNCHANGED scheduler

(***************************************************************************)
(* scrape_all_cinema_details                                               *)
(***************************************************************************)
\* Head of the loop over the listed cinemas: every cinema is scraped.
CinemaLoopStep ==
    /\ InCinemaPass
    /\ wpc = "idle"
    /\ last_item' = NoItem
    /\ IF idx > Len(cinemas)
       THEN /\ AfterCinemaPass
            /\ UNCHANGED wpc
       ELSE /\ wpc' = "try1"
            /\ UNCHANGED <<pc, retval, idx, cinemaCounters, output_file>>
    /\ UNCHANGED <<shutdown_requested, browser_restart_count, nav_attempt,
                   attempt, movies, cinemas, run, movieCounters,
                   wbranch, wres, wpage, wtrace, tracing, storeVars>>
    /\ UNCHANGED adapterVars
    /\ UNCHANGED sessionVars
    /\ UNCHANGED scheduler

CinemaRow(details, page) ==
    [ name |-> details.name, url |-> details.url,
      address |-> details.address, from_blocked |-> page \in FlaggedPages ]

\* The rest of the loop body once scrape_cinema_details is back.
CinemaItemFinish ==
    /\ InCinemaPass
    /\ wpc \in {"done", "raised"}
    /\ wpc' = "idle" /\ wbranch' = "" /\ wres' = NoResult /\ wpage' = ""
    /\ wtrace' = <<>> /\ UNCHANGED tracing
    /\ UNCHANGED <<movieCounters, db_movies>>
    /\ IF wpc = "raised"
       THEN /\ AfterCinemaPass
            /\ last_item' = NoItem
            /\ UNCHANGED <<db_cinemas, store_faults>>
       ELSE /\ UNCHANGED <<pc, retval>>
            /\ idx' = idx + 1
            /\ cinemas_processed' = cinemas_processed + 1
            /\ output_file' = append_row(output_file, cinema_csv_row(wres))
            /\ \E query_ok \in CallOutcomes(store_faults) :
                 IF exists_by_name(db_cinemas, Item.name, query_ok)
                    THEN /\ cinemas_skipped' = cinemas_skipped + 1
                         /\ store_faults' = store_faults + Fault(query_ok)
                         /\ UNCHANGED <<cinemas_added, db_cinemas>>
                         /\ last_item' =
                              [ name |-> Item.name, data_type |-> "cinema",
                                degraded |-> Degraded,
                                error_data |-> is_error_data(wres, "cinema"),
                                add_called |-> FALSE, added |-> FALSE,
                                blocked |-> FromBlockedPage ]
                    ELSE IF is_error_data(wres, "cinema")
                    THEN /\ store_faults' = store_faults + Fault(query_ok)
                         /\ UNCHANGED <<cinemas_skipped, cinemas_added, db_cinemas>>
                         /\ last_item' =
                              [ name |-> Item.name, data_type |-> "cinema",
                                degraded |-> Degraded, error_data |-> TRUE,
                                add_called |-> FALSE, added |-> FALSE,
                                blocked |-> FromBlockedPage ]
                    ELSE \E write_ok \in CallOutcomes(store_faults + Fault(query_ok)) :
                           /\ store_faults' =
                                store_faults + Fault(query_ok) + Fault(write_ok)
                           /\ db_cinemas' = IF write_ok
                                            THEN insert_row(db_cinemas,
                                                   CinemaRow(wres, wpage))
                                            ELSE db_cinemas
                           /\ cinemas_added' =
                                cinemas_added + (IF write_ok THEN 1 ELSE 0)
                           /\ UNCHANGED cinemas_skipped
                           /\ last_item' =
                                [ name |-> Item.name, data_type |-> "cinema",
                                  degraded |-> Degraded,
                                  error_data |-> FALSE,
                                  add_called |-> TRUE, added |-> write_ok,
                                  blocked |-> FromBlockedPage ]
    /\ UNCHANGED <<shutdown_requested, browser_restart_count, nav_attempt,
                   attempt, movies, cinemas, run>>
    /\ UNCHANGED adapterVars
    /\ UNCHANGED sessionVars
    /\ UNCHANGED scheduler

\* The next run of the program against the same store: a new process.
NextRun ==
    /\ pc = "returned"
    /\ run < MaxRuns
    /\ run' = run + 1
    /\ pc' = "top"
    /\ shutdown_requested' = FALSE
    /\ browser_restart_count' = 0
    /\ nav_attempt' = 0
    /\ attempt' = 0
    /\ movies' = <<>>
    /\ cinemas' = <<>>
    /\ retval' = "pending"
    /\ idx' = 0
    /\ movies_processed' = 0 /\ movies_skipped' = 0 /\ movies_added' = 0
    /\ cinemas_processed' = 0 /\ cinemas_skipped' = 0 /\ cinemas_added' = 0
    /\ last_item' = NoItem
    /\ UNCHANGED <<wrapVars, storeVars>>
    /\ UNCHANGED adapterVars
    /\ UNCHANGED sessionVars
    /\ UNCHANGED scheduler
    /\ UNCHANGED output_file

Next ==
    \/ signal_handler
    \/ StartSession
    \/ NavigationAttempt
    \/ MovieListingAttempt
    \/ CinemaListingAttempt
    \/ MovieLoopStep
    \/ WrapperAttempt
    \/ WrapperRestart
    \/ MovieItemFinish
    \/ CinemaLoopStep
    \/ CinemaItemFinish
    \/ NextRun

Spec == Init /\ [][Next]_vars

(***************************************************************************)
(* The handling of single items with the history of the awaited calls      *)
(* recorded: a run that has listed one movie and one cinema and enters the *)
(* movie pass.                                                             *)
(***************************************************************************)
InitItem ==
    /\ pc = "movie_details"
    /\ shutdown_requested = FALSE
    /\ browser_restart_count = 0
    /\ nav_attempt = 0
    /\ attempt = 0
    /\ movies = scrape_movie_showings(
                   [clickable |-> TRUE, names |-> SubSeq(MovieProgramme, 1, 1)])
    /\ cinemas = cinemas_in([clickable |-> TRUE, names |-> CinemaProgramme])
    /\ retval = "pending"
    /\ run = 1
    /\ idx = 1
    /\ movies_processed = 0 /\ movies_skipped = 0 /\ movies_added = 0
    /\ cinemas_processed = 0 /\ cinemas_skipped = 0 /\ cinemas_added = 0
    /\ wpc = "idle"
    /\ wbranch = ""
    /\ wres = NoResult
    /\ wpage = ""
    /\ wtrace = <<>>
    /\ tracing = TRUE
    /\ db_movies = <<>>
    /\ db_cinemas = <<>>
    /\ store_faults = 0
    /\ last_item = NoItem
    /\ AdapterIdle
    /\ SessionIdle
    /\ scheduler = NotScheduled
    /\ output_file = create_output(MovieCsvHeader)

NextItem ==
    \/ MovieLoopStep
    \/ WrapperAttempt
    \/ WrapperRestart
    \/ MovieItemFinish
    \/ CinemaLoopStep
    \/ CinemaItemFinish

SpecItem == InitItem /\ [][NextItem]_vars

TypeOK ==
    /\ pc \in {"top", "nav", "list_movies", "list_cinemas", "movie_details",
               "cinema_details", "returned"}
    /\ retval \in {"pending", "True", "False"}
    /\ wpc \in {"idle", "try1", "restart1", "try2", "restart2", "try3",
                "done", "raised"}
    /\ browser_restart_count \in 0..(max_browser_restarts + 1)
    /\ nav_attempt \in 0..max_nav_retries
    /\ attempt \in 0..max_retries
    /\ run \in 1..MaxRuns
    /\ store_faults \in 0..MaxStoreFaults
    /\ Len(movies) <= MaxEntries /\ Len(cinemas) <= MaxEntries
    /\ wbranch \in ExitBranches
    /\ tracing \in BOOLEAN /\ shutdown_requested \in BOOLEAN

(***************************************************************************)
(* Text of dates and times: str.strip, str.split, int() and the zero-padded *)
(* decimal fields of isoformat().                                          *)
(***************************************************************************)
DigitChars == "0123456789"

\* str.strip() for texts whose only whitespace is the space character.
RECURSIVE strip(_)
strip(s) ==
    IF Len(s) = 0 THEN s
    ELSE IF SubSeq(s, 1, 1) = " " THEN strip(SubSeq(s, 2, Len(s)))
    ELSE IF SubSeq(s, Len(s), Len(s)) = " " THEN strip(SubSeq(s, 1, Len(s) - 1))
    ELSE s

\* str.split(sep) for a separator of one character: the pieces in order.
RECURSIVE split_from(_, _, _)
split_from(s, sep, piece) ==
    IF Len(s) = 0 THEN <<piece>>
    ELSE IF SubSeq(s, 1, 1) = sep
         THEN <<piece>> \o split_from(SubSeq(s, 2, Len(s)), sep, "")
         ELSE split_from(SubSeq(s, 2, Len(s)), sep, piece \o SubSeq(s, 1, 1))

split(s, sep) == split_from(s, sep, "")

DigitValue(c) == CHOOSE v \in 0..9 : SubSeq(DigitChars, v + 1, v + 1) = c
IsDigit(c) == \E v \in 0..9 : SubSeq(DigitChars, v + 1, v + 1) = c

RECURSIVE DigitsValue(_, _)
DigitsValue(s, acc) ==
    IF Len(s) = 0 THEN acc
    ELSE DigitsValue(SubSeq(s, 2, Len(s)), acc * 10 + DigitValue(SubSeq(s, 1, 1)))

\* int(text): surrounding blanks are ignored; a text that is not a run of
\* decimal digits raises ValueError (ok = FALSE).  Signs and underscores do
\* not occur in the texts of the model.
int(text) ==
    LET t == strip(text)
    IN IF Len(t) > 0 /\ \A i \in 1..Len(t) : IsDigit(SubSeq(t, i, i))
       THEN [ok |-> TRUE, val |-> DigitsValue(t, 0)]
       ELSE [ok |-> FALSE, val |-> 0]

RECURSIVE ToText(_)
ToText(n) ==
    IF n < 10 THEN SubSeq(DigitChars, n + 1, n + 1)
    ELSE ToText(n \div 10) \o SubSeq(DigitChars, (n % 10) + 1, (n % 10) + 1)

Pad2(n) == IF n < 10 THEN "0" \o ToText(n) ELSE ToText(n)

(***************************************************************************)
(* datetime.date: construction (ValueError for a day the month does not    *)
(* have), ordering and the following day.                                  *)
(***************************************************************************)
IsLeap(y) == (y % 4 = 0 /\ y % 100 # 0) \/ y % 400 = 0

DaysIn(y, m) ==
    IF m = 2 THEN (IF IsLeap(y) THEN 29 ELSE 28)
    ELSE IF m \in {4, 6, 9, 11} THEN 30 ELSE 31

IsValidDate(y, m, d) == m \in 1..12 /\ d >= 1 /\ d <= DaysIn(y, m)

date(y, m, d) == [y |-> y, m |-> m, d |-> d]

\* None where a date is expected.
NoDate == [y |-> 0, m |-> 0, d |-> 0]

DateBefore(a, b) ==
    \/ a.y < b.y
    \/ a.y = b.y /\ a.m < b.m
    \/ a.y = b.y /\ a.m = b.m /\ a.d < b.d

NextDay(a) ==
    IF a.d < DaysIn(a.y, a.m) THEN date(a.y, a.m, a.d + 1)
    ELSE IF a.m < 12 THEN date(a.y, a.m + 1, 1)
    ELSE date(a.y + 1, 1, 1)

\* Variant: the year is never rolled over.
roll_year_never(show_date, today_date) == FALSE

\* `if show_date < today:` of _parse_date_text
roll_year(show_date, today_date) == DateBefore(show_date, today_date)

\* MovieScraper._parse_date_text.  current_year is datetime.now().year and
\* today_date is date.today(), two readings of the clock.
parse_date_text(date_text, current_year, today_date) ==
    LET parts == split(strip(date_text), "/")
    IN IF Len(parts) # 2 THEN NoDate
       ELSE LET day == int(parts[1])
                month == int(parts[2])
            IN IF ~day.ok \/ ~month.ok THEN NoDate
               ELSE IF ~IsValidDate(current_year, month.val, day.val) THEN NoDate
               ELSE IF roll_year(date(current_year, month.val, day.val), today_date)
                    THEN IF IsValidDate(current_year + 1, month.val, day.val)
                         THEN date(current_year + 1, month.val, day.val)
                         ELSE NoDate
                    ELSE date(current_year, month.val, day.val)

\* None where a timestamp text is expected.
NoTimestamp == ""

\* MovieScraper._convert_to_timestamp: datetime.combine(...).isoformat().
convert_to_timestamp(time_str, show_date) ==
    LET time_parts == split(strip(time_str), ":")
    IN IF Len(time_parts) # 2 THEN NoTimestamp
       ELSE LET hour == int(time_parts[1])
                minute == int(time_parts[2])
            IN IF ~hour.ok \/ ~minute.ok THEN NoTimestamp
               ELSE IF hour.val > 23 \/ minute.val > 59 THEN NoTimestamp
               ELSE ToText(show_date.y) \o "-" \o Pad2(show_date.m) \o "-"
                    \o Pad2(show_date.d) \o "T" \o Pad2(hour.val) \o ":"
                    \o Pad2(minute.val) \o ":00"

(***************************************************************************)
(* Showtime extraction: one block of a cinema page (a movie, its version   *)
(* tag and its time strings under the selected date cell) handed to        *)
(* _process_movie_showtimes.                                               *)
(***************************************************************************)
ProgramIdle ==
    /\ pc = "top"
    /\ shutdown_requested = FALSE
    /\ browser_restart_count = 0
    /\ nav_attempt = 0
    /\ attempt = 0
    /\ movies = <<>>
    /\ cinemas = <<>>
    /\ retval = "pending"
    /\ run = 1
    /\ idx = 0
    /\ movies_processed = 0 /\ movies_skipped = 0 /\ movies_added = 0
    /\ cinemas_processed = 0 /\ cinemas_skipped = 0 /\ cinemas_added = 0
    /\ wpc = "idle"
    /\ wbranch = ""
    /\ wres = NoResult
    /\ wpage = ""
    /\ wtrace = <<>>
    /\ tracing = FALSE
    /\ last_item = NoItem
    /\ SessionIdle
    /\ output_file = NoFile

PipelineAtRest == ProgramIdle /\ scheduler = NotScheduled

\* The rows a run writes for an item read on its content page.
StoredMovie(name) ==
    MovieRow(internal_result("movie", name, Entry(name).url, "content"), "content")
StoredCinema(name) ==
    CinemaRow(internal_result("cinema", name, Entry(name).url, "content"), "content")

\* The timetable of the site: the blocks its cinema pages show under their
\* date cells.  "9:30" and "09:30" are the same time, "soon" is no time and
\* "30/2" no date; Movie C is not in the store.
Block(cinema_name, date_text, movie_name, language, showtimes) ==
    [ cinema_name |-> cinema_name, date_text |-> date_text,
      name |-> movie_name, language |-> language, showtimes |-> showtimes ]

ShowProgramme ==
    { Block("Cinema X", "1/1", "Movie A", "", <<"9:30", "09:30">>),
      Block("Cinema X", "1/1", "Movie A", "IMAX", <<"9:30">>),
      Block("Cinema Y", "1/1", "Movie A", "", <<"21:00", "9:30">>),
      Block("Cinema X", "31/12", "Movie B", "", <<"9:30", "soon">>),
      Block("Cinema X", " 1/1 ", "Movie B", "", <<"9:30">>),
      Block("Cinema Y", "30/2", "Movie B", "", <<"21:00">>),
      Block("Cinema Y", "31/12", "Movie C", "", <<"21:00">>) }

DateLabels == { block.date_text : block \in ShowProgramme }
TimeLists == { block.showtimes : block \in ShowProgramme }
LastDay == NextDay(StartDay)
ShowYears == {StartDay.y, LastDay.y}
ShowDays == {StartDay, LastDay}

\* The conversions on the texts above (evaluated once).
ParsedDates ==
    [ label \in DateLabels, current_year \in ShowYears, today_date \in ShowDays |->
        parse_date_text(label, current_year, today_date) ]
ShowDates == { ParsedDates[a] : a \in DOMAIN ParsedDates } \ {NoDate}
TimeTexts == UNION { { times[i] : i \in 1..Len(times) } : times \in TimeLists }
Timestamps ==
    [ time_str \in TimeTexts, show_date \in ShowDates |->
        convert_to_timestamp(time_str, show_date) ]

\* showtime_exists: exact match on the four fields.
showtime_exists(table, movie_id, cinema_id, showtime, language) ==
    \E i \in 1..Len(table) :
        /\ table[i].movie_id = movie_id
        /\ table[i].cinema_id = cinema_id
        /\ table[i].showtime = showtime
        /\ table[i].language = language

\* What a store call of one turn of the loop can do.
TurnOutcomes == {"ok", "query_error", "write_error"}

RECURSIVE FaultsIn(_)
FaultsIn(outcomes) ==
    IF outcomes = <<>> THEN 0
    ELSE (IF Head(outcomes) = "ok" THEN 0 ELSE 1) + FaultsIn(Tail(outcomes))

OutcomeLists(n, faults) ==
    { o \in [1..n -> TurnOutcomes] : faults + FaultsIn(o) <= MaxStoreFaults }

\* Variant: the existence check is ignored.
skip_showtime_never(exists) == FALSE

\* `if self.db_client.showtime_exists(...): showtimes_skipped += 1; continue`
skip_showtime(exists) == exists

\* The loop over the time strings in _process_movie_showtimes, with its
\* counters showtimes_added and showtimes_skipped.  A StoreError out of
\* showtime_exists or add_showtime is caught by the `except` of the turn,
\* which goes on with the next time string.
RECURSIVE process_showtimes(_, _, _, _, _, _, _)
process_showtimes(acc, movie_id, cinema_id, language, showtimes, show_date, outcomes) ==
    IF showtimes = <<>> THEN acc
    ELSE LET showtime_timestamp == Timestamps[Head(showtimes), show_date]
             showtime_data == [ movie_id |-> movie_id, cinema_id |-> cinema_id,
                                showtime |-> showtime_timestamp,
                                language |-> language ]
             after ==
                IF showtime_timestamp = NoTimestamp THEN acc
                ELSE IF Head(outcomes) = "query_error" THEN acc
                ELSE IF skip_showtime(showtime_exists(acc.table, movie_id,
                                         cinema_id, showtime_timestamp, language))
                     THEN [acc EXCEPT !.showtimes_skipped = @ + 1]
                ELSE IF Head(outcomes) = "write_error" THEN acc
                ELSE [acc EXCEPT !.table = insert_row(@, showtime_data),
                                 !.showtimes_added = @ + 1]
         IN process_showtimes(after, movie_id, cinema_id, language,
                              Tail(showtimes), show_date, Tail(outcomes))

\* Variant: the time strings are processed whether or not the movie name
\* was resolved.
process_movie_showtimes_unresolved(table, movie_table, cinema_id, movie_name, language, showtimes, show_date, lookup_ok, outcomes) ==
    process_showtimes([table |-> table, showtimes_added |-> 0,
                       showtimes_skipped |-> 0],
                      get_by_name(movie_table, movie_name, lookup_ok),
                      cinema_id, language, showtimes, show_date, outcomes)

\* MovieScraper._process_movie_showtimes: the table afterwards and the two
\* counters it logs.
process_movie_showtimes(table, movie_table, cinema_id, movie_name, language, showtimes, show_date, lookup_ok, outcomes) ==
    LET movie_id == get_by_name(movie_table, movie_name, lookup_ok)
        start == [table |-> table, showtimes_added |-> 0, showtimes_skipped |-> 0]
    IN IF movie_id = 0 THEN start
       ELSE process_showtimes(start, movie_id, cinema_id, language, showtimes,
                              show_date, outcomes)

\* One turn of the loops of _scrape_showtimes_for_cinema over the date cells
\* and the blocks of a cinema page, reached when
\* _scrape_cinema_details_internal has found the cinema in the store: the
\* date label is parsed and the block handed to _process_movie_showtimes.
ShowtimeBlock ==
    /\ now < MaxCalls
    /\ \E block \in ShowProgramme, cinema_ok \in CallOutcomes(store_faults) :
        \E lookup_ok \in CallOutcomes(store_faults + Fault(cinema_ok)) :
         \E outcomes \in OutcomeLists(Len(block.showtimes),
                            store_faults + Fault(cinema_ok) + Fault(lookup_ok)) :
           LET cinema_id == get_by_name(db_cinemas, block.cinema_name, cinema_ok)
               show_date == ParsedDates[block.date_text, today.y, today]
               done == process_movie_showtimes(db_showtimes, db_movies,
                          cinema_id, block.name, block.language,
                          block.showtimes, show_date, lookup_ok, outcomes)
           IN /\ store_faults' = store_faults + Fault(cinema_ok)
                                 + Fault(lookup_ok) + FaultsIn(outcomes)
              /\ IF cinema_id = 0
                 THEN /\ call' = [op |-> "get_cinema_by_name"]
                      /\ result' = NoValue
                      /\ UNCHANGED db_showtimes
                 ELSE IF show_date = NoDate
                 THEN /\ call' = [op |-> "_parse_date_text"]
                      /\ result' = NoValue
                      /\ UNCHANGED db_showtimes
                 ELSE /\ call' = [ op |-> "_process_movie_showtimes",
                                   cinema_name |-> block.cinema_name,
                                   movie_name |-> block.name ]
                      /\ result' = [ showtimes_added |-> done.showtimes_added,
                                     showtimes_skipped |-> done.showtimes_skipped ]
                      /\ db_showtimes' = done.table
    /\ now' = now + 1
    /\ UNCHANGED <<db_movies, db_cinemas, today, pipelineVars>>

\* The day ends.
Midnight ==
    /\ DateBefore(today, LastDay)
    /\ today' = NextDay(today)
    /\ UNCHANGED <<db_showtimes, now, call, result, storeVars, pipelineVars>>

InitShow ==
    /\ PipelineAtRest
    /\ db_movies = <<StoredMovie("Movie A"), StoredMovie("Movie B")>>
    /\ db_cinemas = <<StoredCinema("Cinema X"), StoredCinema("Cinema Y")>>
    /\ store_faults = 0
    /\ AdapterIdle

NextShow ==
    \/ ShowtimeBlock
    \/ Midnight

SpecShow == InitShow /\ [][NextShow]_vars

(***************************************************************************)
(* The record store adapter (db/supabase_client.py) called from outside    *)
(* the pipeline: upsert_movie, upsert_cinema and mark_inactive_movies.     *)
(* datetime.now() reads the clock `now`, which every call advances.        *)
(***************************************************************************)
\* dict.update / the column-wise effect of an update request: the fields of
\* payload replace or extend those of row.
Merge(row, payload) ==
    [ k \in DOMAIN row \cup DOMAIN payload |->
        IF k \in DOMAIN payload THEN payload[k] ELSE row[k] ]

\* upsert_movie: `movie_data['id'] = ...; movie_data['last_updated'] = ...`
stamp_movie_update(movie_data, id, clock) ==
    Merge(movie_data, [id |-> id, last_updated |-> clock])

\* upsert_cinema: `cinema_data['id'] = existing_cinema['id']`
stamp_cinema_update(cinema_data, id, clock) ==
    Merge(cinema_data, [id |-> id])

\* Variant: an existing record is not looked for.
find_existing_never(table, name, lookup_ok) == 0

\* `existing_movie = self.get_movie_by_name(movie_data['name'])`
find_existing(table, name, lookup_ok) == get_by_name(table, name, lookup_ok)

\* The two branches upsert_movie and upsert_cinema share; id 0 is None.
upsert(table, existing, update_data, insert_data, write_ok) ==
    IF ~write_ok THEN [table |-> table, id |-> 0, existing |-> existing]
    ELSE IF existing # 0
    THEN [ table |-> [table EXCEPT ![existing] = Merge(@, update_data)],
           id |-> existing, existing |-> existing ]
    ELSE [ table |-> insert_row(table, insert_data),
           id |-> Len(table) + 1, existing |-> existing ]

\* SupabaseClient.upsert_movie
upsert_movie(table, movie_data, clock, lookup_ok, write_ok) ==
    LET existing_movie == find_existing(table, movie_data.name, lookup_ok)
    IN upsert(table, existing_movie,
              stamp_movie_update(movie_data, existing_movie, clock),
              Merge(movie_data, [created_at |-> clock]), write_ok)

\* SupabaseClient.upsert_cinema
upsert_cinema(table, cinema_data, clock, lookup_ok, write_ok) ==
    LET existing_cinema == find_existing(table, cinema_data.name, lookup_ok)
    IN upsert(table, existing_cinema,
              stamp_cinema_update(cinema_data, existing_cinema, clock),
              Merge(cinema_data, [created_at |-> clock]), write_ok)

\* `.neq('name', 'dummy')`: the rows the first request leaves alone.
untouched_name == "dummy"

SetActive(table, names, flag) ==
    [ i \in 1..Len(table) |->
        IF table[i].name \in names
        THEN Merge(table[i], [is_active |-> flag]) ELSE table[i] ]

\* SupabaseClient.mark_inactive_movies
mark_inactive_movies(table, active_movie_names, first_ok, second_ok) ==
    LET names == { table[i].name : i \in 1..Len(table) }
        inactive == SetActive(table, names \ {untouched_name}, FALSE)
        listed == { active_movie_names[i] : i \in 1..Len(active_movie_names) }
    IN IF ~first_ok THEN [table |-> table, ok |-> FALSE]
       ELSE IF active_movie_names = <<>> THEN [table |-> inactive, ok |-> TRUE]
       ELSE IF ~second_ok THEN [table |-> inactive, ok |-> FALSE]
       ELSE [table |-> SetActive(inactive, listed, TRUE), ok |-> TRUE]

\* What callers hand to the adapter.
MoviePayloads ==
    { [ name |-> n, category |-> c, description |-> "A film.", is_active |-> TRUE ] :
        n \in {"Movie A", "dummy"}, c \in {"Action", "Drama"} }
CinemaPayloads ==
    { [ name |-> "Cinema X", address |-> a ] :
        a \in {"1 Harbour Road", "2 Harbour Road"} }
ActiveLists == { <<>>, <<"Movie A">>, <<"dummy">>, <<"Movie A", "dummy">> }

UpsertMovie ==
    /\ now < MaxCalls
    /\ \E movie_data \in MoviePayloads, lookup_ok \in CallOutcomes(store_faults) :
        \E write_ok \in CallOutcomes(store_faults + Fault(lookup_ok)) :
          LET done == upsert_movie(db_movies, movie_data, now, lookup_ok, write_ok)
          IN /\ db_movies' = done.table
             /\ result' = done.id
             /\ call' = [ op |-> "upsert_movie", data |-> movie_data, at |-> now,
                          existing |-> done.existing ]
             /\ store_faults' = store_faults + Fault(lookup_ok) + Fault(write_ok)
    /\ now' = now + 1
    /\ UNCHANGED <<db_cinemas, db_showtimes, today, pipelineVars>>

UpsertCinema ==
    /\ now < MaxCalls
    /\ \E cinema_data \in CinemaPayloads, lookup_ok \in CallOutcomes(store_faults) :
        \E write_ok \in CallOutcomes(store_faults + Fault(lookup_ok)) :
          LET done == upsert_cinema(db_cinemas, cinema_data, now, lookup_ok, write_ok)
          IN /\ db_cinemas' = done.table
             /\ result' = done.id
             /\ call' = [ op |-> "upsert_cinema", data |-> cinema_data, at |-> now,
                          existing |-> done.existing ]
             /\ store_faults' = store_faults + Fault(lookup_ok) + Fault(write_ok)
    /\ now' = now + 1
    /\ UNCHANGED <<db_movies, db_showtimes, today, pipelineVars>>

MarkInactiveMovies ==
    /\ now < MaxCalls
    /\ \E active_movie_names \in ActiveLists, first_ok \in CallOutcomes(store_faults) :
        \E second_ok \in CallOutcomes(store_faults + Fault(first_ok)) :
          LET done == mark_inactive_movies(db_movies, active_movie_names,
                                           first_ok, second_ok)
              second_sent == first_ok /\ active_movie_names # <<>>
          IN /\ second_sent \/ second_ok
             /\ db_movies' = done.table
             /\ result' = done.ok
             /\ call' = [ op |-> "mark_inactive_movies",
                          active_movie_names |-> active_movie_names ]
             /\ store_faults' = store_faults + Fault(first_ok) + Fault(second_ok)
    /\ now' = now + 1
    /\ UNCHANGED <<db_cinemas, db_showtimes, today, pipelineVars>>

InitStore ==
    /\ PipelineAtRest
    /\ db_movies = <<>>
    /\ db_cinemas = <<>>
    /\ store_faults = 0
    /\ AdapterIdle

NextStore ==
    \/ UpsertMovie
    \/ UpsertCinema
    \/ MarkInactiveMovies

SpecStore == InitStore /\ [][NextStore]_vars

(***************************************************************************)
(* utils/hashing.py.  A mapping is the sequence of its (key, value) pairs  *)
(* in insertion order.                                                     *)
(***************************************************************************)
\* dict.get(key, default)
get(data, key, default) ==
    IF \E i \in 1..Len(data) : data[i][1] = key
    THEN data[CHOOSE i \in 1..Len(data) : data[i][1] = key][2]
    ELSE default

\* The string escapes of json.dumps for the quote and the backslash; the
\* texts of the model hold no control characters.
RECURSIVE json_escape(_)
json_escape(s) ==
    IF Len(s) = 0 THEN s
    ELSE (IF SubSeq(s, 1, 1) = "\"" THEN "\\\""
          ELSE IF SubSeq(s, 1, 1) = "\\" THEN "\\\\"
          ELSE SubSeq(s, 1, 1)) \o json_escape(SubSeq(s, 2, Len(s)))

\* json.dumps(normalized_data, sort_keys=True, ensure_ascii=False) for the
\* three keys of normalized_data.
json_dumps(normalized_data) ==
    "{\"category\": \"" \o json_escape(normalized_data.category)
    \o "\", \"description\": \"" \o json_escape(normalized_data.description)
    \o "\", \"name\": \"" \o json_escape(normalized_data.name) \o "\"}"

\* hashlib.md5(...).hexdigest() on the serialisations that occur in the
\* model, as computed by hashlib.
Md5Digests ==
    { <<"{\"category\": \"Action\", \"description\": \"A film.\", \"name\": \"Movie A\"}",
        "8d9553a42cb89d3139edce6ee5fb8e7d">>,
      <<"{\"category\": \"Action\", \"description\": \"A \\\"film\\\"\", \"name\": \"Movie A\"}",
        "d307b9d6d5b73a2731a8baafee8233df">>,
      <<"{\"category\": \"Action \", \"description\": \"A film.\", \"name\": \"Movie A\"}",
        "6234bd3464b148e8c87d6bfd752e5d47">>,
      <<"{\"category\": \"Action \", \"description\": \"A \\\"film\\\"\", \"name\": \"Movie A\"}",
        "5bb3181ade96b5fa58924c29147f6918">>,
      <<"{\"category\": \"\", \"description\": \"A film.\", \"name\": \"Movie A\"}",
        "45f1ec140ae85289ddb87eaaec20fc91">>,
      <<"{\"category\": \"\", \"description\": \"A \\\"film\\\"\", \"name\": \"Movie A\"}",
        "5d32be6c0ea76300f15c412912ed4132">>,
      <<"{\"category\": \"Action\", \"description\": \"A film.\", \"name\": \" Movie A \"}",
        "ec16914ddf6b42ac955019ae79206838">>,
      <<"{\"category\": \"Action\", \"description\": \"A \\\"film\\\"\", \"name\": \" Movie A \"}",
        "1b101dbde35b871ee5d7d72bf56adb74">>,
      <<"{\"category\": \"Action \", \"description\": \"A film.\", \"name\": \" Movie A \"}",
        "92a79a23bb543ac0a7d707543d30c87a">>,
      <<"{\"category\": \"Action \", \"description\": \"A \\\"film\\\"\", \"name\": \" Movie A \"}",
        "0e7f340f8352f27c5aa803d6fa5e06e9">>,
      <<"{\"category\": \"\", \"description\": \"A film.\", \"name\": \" Movie A \"}",
        "21983bd7b02335cafdc470fe4f7225f8">>,
      <<"{\"category\": \"\", \"description\": \"A \\\"film\\\"\", \"name\": \" Movie A \"}",
        "3b665ad02030001f20a294cf48bf0261">>,
      <<"{\"category\": \"Action\", \"description\": \"A film.\", \"name\": \"Movie B\"}",
        "6da789f46678dcedfe466fe93287def1">>,
      <<"{\"category\": \"Action\", \"description\": \"A \\\"film\\\"\", \"name\": \"Movie B\"}",
        "67a9e877b22a69597f2400e2bab18466">>,
      <<"{\"category\": \"Action \", \"description\": \"A film.\", \"name\": \"Movie B\"}",
        "da63ead9a45040cb2deb6ef0b416d0ea">>,
      <<"{\"category\": \"Action \", \"description\": \"A \\\"film\\\"\", \"name\": \"Movie B\"}",
        "d93b4134f4a79ccc8032bc9afe5fa16f">>,
      <<"{\"category\": \"\", \"description\": \"A film.\", \"name\": \"Movie B\"}",
        "97d4b0576bfda79219459bfa0b40380e">>,
      <<"{\"category\": \"\", \"description\": \"A \\\"film\\\"\", \"name\": \"Movie B\"}",
        "3030cd901911fc0fb4085e0ffee5ce97">> }

md5(text) == (CHOOSE pair \in Md5Digests : pair[1] = text)[2]

\* Variant: the values are hashed as given.
normalize_raw(value) == value

\* `.strip()` of the three values
normalize(value) == strip(value)

\* generate_content_hash
generate_content_hash(data) ==
    LET normalized_data ==
            [ name |-> normalize(get(data, "name", "")),
              category |-> normalize(get(data, "category", "")),
              description |-> normalize(get(data, "description", "")) ]
        json_string == json_dumps(normalized_data)
    IN md5(json_string)

\* None where a digest is expected.
NoDigest == "None"

\* Variant: a movie without a stored digest is never updated.
should_update_movie_if_stored(current_hash, stored_hash) ==
    stored_hash # NoDigest /\ current_hash # stored_hash

\* should_update_movie
should_update_movie(current_hash, stored_hash) ==
    stored_hash = NoDigest \/ current_hash # stored_hash

(***************************************************************************)
(* Single calls of the utilities: the arguments are drawn, the call is     *)
(* made and its value kept.                                                *)
(***************************************************************************)
KeyOrders ==
    { <<"name", "category", "description">>,
      <<"description", "name", "category">>,
      <<"url", "category", "name", "description">>,
      <<"name", "description", "created_at", "category">>,
      <<"name", "description">> }

Mappings ==
    { [ i \in 1..Len(keys) |->
          <<keys[i],
            CASE keys[i] = "name" -> n
              [] keys[i] = "category" -> c
              [] keys[i] = "description" -> d
              [] keys[i] = "url" -> BaseUrl \o Href("Movie A")
              [] OTHER -> "2024-01-01T00:00:00">> ] :
        keys \in KeyOrders,
        n \in {"Movie A", " Movie A ", "Movie B"},
        c \in {"Action", "Action ", ""},
        d \in {"A film.", "A \"film\""} }

Digests == { pair[2] : pair \in Md5Digests }

\* The days and labels of the calendar that are followed: the turns of the
\* month and of the year, and the end of February.
DayNumbers == {1, 15, 28, 29, 30, 31}
MonthNumbers == {1, 2, 3, 12}
ClockYears == StartDay.y .. (StartDay.y + MaxYears - 1)
ClockDays ==
    { day \in { date(y, m, d) : y \in ClockYears, m \in MonthNumbers,
                                 d \in DayNumbers } :
        IsValidDate(day.y, day.m, day.d) }
CellLabels ==
    { ToText(d) \o "/" \o ToText(m) : d \in DayNumbers, m \in MonthNumbers }
    \cup { " 1/1 ", "01/01", "1/1/2024", "1-1", "", "1/Jan" }

\* datetime.now().year is read before date.today(): the two differ when the
\* year turns in between.
YearsReadOn(today_date) ==
    IF today_date.m = 1 /\ today_date.d = 1
    THEN {today_date.y - 1, today_date.y} ELSE {today_date.y}

\* What a dropdown can hold when it is read: any entries in any order, the
\* same entry more than once included.
Menus(names) ==
    { [clickable |-> FALSE, names |-> <<>>] }
    \cup { [clickable |-> TRUE, names |-> l] :
             l \in UNION { [1..n -> names] : n \in 0..MaxEntries } }

\* The homepages navigate_to_homepage is called on: turns that leave the
\* page in Chinese followed by one that ends the loop (English shown,
\* English after the click, or an unreadable lang attribute), up to the
\* read of final_lang after the last turn.
RetryTurns ==
    {NotSwitchedTurn, NoSwitcherTurn, ClickRaisesTurn, UpdatedUnreadableTurn}
LastTurns == {EnglishTurn, SwitchedTurn, LangUnreadableTurn}
LanguageScripts ==
    UNION { { prefix \o <<last>> :
                prefix \in [1..n -> RetryTurns], last \in LastTurns } :
            n \in 0..language_max_retries }
    \cup { prefix \o <<NotSwitchedTurn>> :
             prefix \in [1..language_max_retries -> RetryTurns] }
Homepages ==
    { [get |-> "page", page |-> status[1], status_raises |-> status[2],
       turns |-> turns] :
        status \in { <<"content", FALSE>>, <<"cloudflare", FALSE>>,
                     <<"captcha", FALSE>>, <<"denied", FALSE>>,
                     <<"captcha", TRUE>> },
        turns \in LanguageScripts }
    \cup { [Homepage("content", <<EnglishTurn>>) EXCEPT !.get = g] :
             g \in {"none", "StopIteration", "error"} }

UtilityCalls ==
    { [op |-> "navigate_to_homepage", home |-> h] : h \in Homepages }
    \cup
    { [op |-> "generate_content_hash", first |-> a, second |-> b] :
        a \in Mappings, b \in Mappings }
    \cup { [op |-> "scrape_movie_showings", dropdown |-> d] :
             d \in Menus({"Movie A", "Movie B"}) }
    \cup { [op |-> "scrape_cinemas", dropdowns |-> d] :
             d \in [1..cinemas_max_retries -> Menus({"Cinema X", "Cinema Y"})] }
    \cup { [op |-> "should_update_movie", current_hash |-> c, stored_hash |-> t] :
             c \in Digests \cup {NoDigest}, t \in Digests \cup {NoDigest} }
    \cup { [op |-> "_parse_date_text", date_text |-> l, current_year |-> y] :
             l \in CellLabels, y \in ClockYears \cup {StartDay.y - 1} }

GenerateContentHash ==
    /\ now = 0
    /\ call.op = "generate_content_hash"
    /\ result' = << generate_content_hash(call.first),
                    generate_content_hash(call.second) >>
    /\ now' = 1
    /\ UNCHANGED <<call, today, db_showtimes, storeVars, pipelineVars>>

ShouldUpdateMovie ==
    /\ now = 0
    /\ call.op = "should_update_movie"
    /\ result' = should_update_movie(call.current_hash, call.stored_hash)
    /\ now' = 1
    /\ UNCHANGED <<call, today, db_showtimes, storeVars, pipelineVars>>

ParseDateText ==
    /\ now = 0
    /\ call.op = "_parse_date_text"
    /\ result' = parse_date_text(call.date_text, call.current_year, today)
    /\ now' = 1
    /\ UNCHANGED <<call, today, db_showtimes, storeVars, pipelineVars>>

ScrapeMovieShowings ==
    /\ now = 0
    /\ call.op = "scrape_movie_showings"
    /\ result' = scrape_movie_showings(call.dropdown)
    /\ now' = 1
    /\ UNCHANGED <<call, today, db_showtimes, storeVars, pipelineVars>>

ScrapeCinemas ==
    /\ now = 0
    /\ call.op = "scrape_cinemas"
    /\ result' = scrape_cinemas(call.dropdowns)
    /\ now' = 1
    /\ UNCHANGED <<call, today, db_showtimes, storeVars, pipelineVars>>

NavigateToHomepage ==
    /\ now = 0
    /\ call.op = "navigate_to_homepage"
    /\ result' = navigate_to_homepage(call.home)
    /\ now' = 1
    /\ UNCHANGED <<call, today, db_showtimes, storeVars, pipelineVars>>

InitCalls ==
    /\ PipelineAtRest
    /\ db_movies = <<>>
    /\ db_cinemas = <<>>
    /\ store_faults = 0
    /\ db_showtimes = <<>>
    /\ now = 0
    /\ result = NoValue
    /\ call \in UtilityCalls
    /\ today \in ClockDays
    /\ IF call.op = "_parse_date_text"
       THEN call.current_year \in YearsReadOn(today)
       ELSE today = StartDay

NextCalls ==
    \/ GenerateContentHash
    \/ ShouldUpdateMovie
    \/ ParseDateText
    \/ ScrapeMovieShowings
    \/ ScrapeCinemas
    \/ NavigateToHomepage

SpecCalls == InitCalls /\ [][NextCalls]_vars

(***************************************************************************)
(* A later run over a store that holds a movie as an earlier run read it:  *)
(* the listing shows Movie A and Movie B, the store holds Movie A with the *)
(* synopsis the site showed then.                                          *)
(***************************************************************************)
EarlierMovie(name) ==
    [StoredMovie(name) EXCEPT !.description = "An earlier synopsis"]

InitRerun ==
    /\ pc = "movie_details"
    /\ shutdown_requested = FALSE
    /\ browser_restart_count = 0
    /\ nav_attempt = 0
    /\ attempt = 0
    /\ movies = scrape_movie_showings(
                   [clickable |-> TRUE, names |-> SubSeq(MovieProgramme, 1, 2)])
    /\ cinemas = cinemas_in([clickable |-> TRUE, names |-> CinemaProgramme])
    /\ retval = "pending"
    /\ run = 2
    /\ idx = 1
    /\ movies_processed = 0 /\ movies_skipped = 0 /\ movies_added = 0
    /\ cinemas_processed = 0 /\ cinemas_skipped = 0 /\ cinemas_added = 0
    /\ wpc = "idle"
    /\ wbranch = ""
    /\ wres = NoResult
    /\ wpage = ""
    /\ wtrace = <<>>
    /\ tracing = FALSE
    /\ db_movies = <<EarlierMovie("Movie A")>>
    /\ db_cinemas = <<>>
    /\ store_faults = 0
    /\ last_item = NoItem
    /\ AdapterIdle
    /\ SessionIdle
    /\ scheduler = NotScheduled
    /\ output_file = create_output(MovieCsvHeader)

SpecRerun == InitRerun /\ [][NextItem]_vars

(***************************************************************************)
(* Browser sessions: every zd.start and every browser.stop of a run, in    *)
(* MovieScraperSync.__enter__ / __exit__, _setup_browser, close and        *)
(* _restart_browser.  A session is "launched" from the moment zd.start     *)
(* returns it and "released" once a stop of it has returned or raised.     *)
(* The listing of cinemas and the two detail passes touch the session only *)
(* through the restarts of the wrappers: the passes are one phase here     *)
(* (pc = "movie_details"), the cinema listing is left out, and `now`       *)
(* counts the items whose extraction asked for a restart.                  *)
(***************************************************************************)
\* `await self.browser.stop()` inside try/except: the error is swallowed.
stop(all_sessions, ref) == [all_sessions EXCEPT ![ref] = "released"]

\* Variant: close leaves the browser running.
close_nothing(all_sessions, ref) == all_sessions

\* MovieScraper.close
close(all_sessions, ref) ==
    IF ref # 0 THEN stop(all_sessions, ref) ELSE all_sessions

\* Variant: the context manager exits without closing.
sync_exit_skipped(all_sessions, ref) == all_sessions

\* MovieScraperSync.__exit__
sync_exit(all_sessions, ref) == close(all_sessions, ref)

\* `startup_timeout = 30 + (attempt * 10)`
startup_timeout(attempt_no) == 30 + attempt_no * 10

\* `any(term in error_str for term in ['handshake', 'connection', 'timeout'])`
\* over the texts a failed launch can carry (evaluated once).
RetryableLaunchErrors ==
    { t \in { LaunchErrorText(o, a) : o \in LaunchOutcomes \ {"ok"},
                                      a \in 0..(setup_max_retries - 1) } :
        \E term \in {"handshake", "connection", "timeout"} :
            Contains(lower(t), term) }

\* Variant: a failed launch is always followed by another one.
after_launch_unbounded(outcome, attempt_no) ==
    IF outcome = "ok" THEN "return" ELSE "retry"

\* What _setup_browser does after the launch of attempt attempt_no: return,
\* go round the loop again, or leave the loop and raise.
after_launch(outcome, attempt_no) ==
    CASE outcome = "ok" -> "return"
      [] outcome = "timeout" ->
           IF attempt_no + 1 < setup_max_retries THEN "retry" ELSE "raise"
      [] OTHER ->
           IF /\ LaunchErrorText(outcome, attempt_no) \in RetryableLaunchErrors
              /\ attempt_no < setup_max_retries - 1
           THEN "retry" ELSE "raise"

\* `error_msg = f"Failed to initialize browser after ..."`
SetupErrorText(last) ==
    "Failed to initialize browser after " \o ToString(setup_max_retries)
    \o " attempts. Last error: " \o last

\* The exceptions _restart_browser lets out that _is_connection_error
\* accepts (evaluated once).
RestartConnectionErrors ==
    { t \in RunErrorTexts \cup {ErrRestartNavigation} : is_connection_error(t) }

\* Variant: the coordinator goes on whatever the navigation returned.
navigation_success_always(returned) == TRUE

\* `if scraper.navigate_to_homepage(): navigation_success = True; break`
navigation_success(returned) == returned

BoolText(b) == IF b THEN "True" ELSE "False"

sessionRestButPage ==
    <<movies, cinemas, run, idx, movieCounters, cinemaCounters, wrapVars,
      storeVars, last_item, db_showtimes, today, call, result, output_file,
      scheduler>>
sessionRest == <<sessionRestButPage, page_fresh>>

\* The wrapper is done with the item (a record or a placeholder goes back
\* to the pass).
ItemOver == spc' = "coord" /\ restart_no' = 0

\* An awaited _restart_browser raised error_text: one more restart when the
\* first one failed with a connection error, else the placeholder.
RestartRaised(error_text) ==
    IF restart_no = 1 /\ error_text \in RestartConnectionErrors
    THEN spc' = "close" /\ restart_no' = 2
    ELSE ItemOver

\* Top of the restart loop: `with MovieScraperSync(...)` builds a new
\* scraper (browser None) and __enter__ calls _setup_browser.
EnterSession ==
    /\ pc = "top" /\ spc = "coord"
    /\ IF \/ browser_restart_count > max_browser_restarts
          \/ shutdown_checkpoint(shutdown_requested)
       THEN /\ Return("False")
            /\ UNCHANGED <<browser, spc, setup_attempt, setup_error>>
       ELSE /\ browser' = 0
            /\ spc' = "setup"
            /\ setup_attempt' = 0
            /\ setup_error' = ""
            /\ UNCHANGED <<pc, retval>>
    /\ UNCHANGED <<shutdown_requested, browser_restart_count, nav_attempt,
                   attempt, now, sessions, restart_no, nav_ok, startup_failed>>
    /\ UNCHANGED sessionRest

\* One turn of the loop of _setup_browser: zd.start under its timeout, and
\* either the return or the clean-up of the except clause.
LaunchAttempt ==
    /\ spc = "setup"
    /\ setup_attempt' = setup_attempt + 1
    /\ \E outcome \in LaunchOutcomes :
         LET text == LaunchErrorText(outcome, setup_attempt)
             cleaned == IF browser # 0 THEN stop(sessions, browser) ELSE sessions
             then == after_launch(outcome, setup_attempt)
         IN CASE then = "return" ->
                   /\ sessions' = Append(sessions, "launched")
                   /\ browser' = Len(sessions) + 1
                   /\ nav_ok' = "none"
                   /\ UNCHANGED <<setup_error, startup_failed, restart_no,
                                  browser_restart_count, retval>>
                   /\ IF restart_no = 0
                      THEN spc' = "coord" /\ pc' = "nav" /\ nav_attempt' = 0
                      ELSE spc' = "navigate" /\ UNCHANGED <<pc, nav_attempt>>
              [] then = "retry" ->
                   /\ sessions' = cleaned
                   /\ browser' = 0
                   /\ setup_error' = text
                   /\ UNCHANGED <<spc, pc, nav_attempt, nav_ok, startup_failed,
                                  restart_no, browser_restart_count, retval>>
              [] OTHER ->
                   /\ sessions' = cleaned
                   /\ browser' = 0
                   /\ setup_error' = text
                   /\ startup_failed' = TRUE
                   /\ UNCHANGED <<nav_attempt, nav_ok>>
                   /\ IF restart_no = 0
                      THEN /\ spc' = "coord"
                           /\ HandleRunException(SetupErrorText(text))
                           /\ UNCHANGED restart_no
                      ELSE /\ RestartRaised(SetupErrorText(text))
                           /\ UNCHANGED <<pc, retval, browser_restart_count>>
    /\ UNCHANGED <<shutdown_requested, attempt, now>>
    /\ UNCHANGED sessionRest

\* Leaving the `with` block: __exit__ closes the session, then the return
\* or the except clause of the restart loop.
ExitReturning(v) ==
    /\ sessions' = sync_exit(sessions, browser)
    /\ Return(v)
    /\ UNCHANGED browser_restart_count

ExitRaising(error_msg) ==
    /\ sessions' = sync_exit(sessions, browser)
    /\ HandleRunException(error_msg)

\* One turn of the navigation loop of run_scraper_with_retry, and the raise
\* after it.
SessionNavigation ==
    /\ pc = "nav" /\ spc = "coord"
    /\ IF shutdown_checkpoint(shutdown_requested)
       THEN /\ ExitReturning("False")
            /\ UNCHANGED page_fresh
            /\ UNCHANGED <<nav_attempt, attempt, nav_ok>>
       ELSE /\ page_fresh' = TRUE
            /\ \E cond \in HomepageConds :
              LET returned == navigate_to_homepage(cond)
              IN /\ nav_ok' = BoolText(returned)
                 /\ IF navigation_success(returned)
                    THEN /\ pc' = "list_movies"
                         /\ attempt' = 0
                         /\ nav_attempt' = 0
                         /\ UNCHANGED <<retval, browser_restart_count, sessions>>
                    ELSE /\ nav_attempt' = nav_attempt + 1
                         /\ UNCHANGED attempt
                         /\ IF nav_attempt + 1 < max_nav_retries
                            THEN UNCHANGED <<pc, retval, browser_restart_count,
                                             sessions>>
                            ELSE ExitRaising(ErrNavigation)
    /\ UNCHANGED <<shutdown_requested, now, browser, spc, restart_no,
                   setup_attempt, setup_error, startup_failed>>
    /\ UNCHANGED sessionRestButPage

\* One turn of the movie listing loop and the code after it.  The listing
\* functions catch every exception, so the reload of the except clauses of
\* the listing loops is never reached.
SessionListing ==
    /\ pc = "list_movies" /\ spc = "coord"
    /\ IF shutdown_checkpoint(shutdown_requested)
       THEN /\ ExitReturning("False")
            /\ UNCHANGED page_fresh
            /\ UNCHANGED attempt
       ELSE /\ page_fresh' = FALSE
            /\ \E found \in BOOLEAN :
              IF found
              THEN /\ pc' = "movie_details"
                   /\ attempt' = 0
                   /\ UNCHANGED <<retval, browser_restart_count, sessions>>
              ELSE IF attempt + 1 < max_retries
              THEN /\ attempt' = attempt + 1
                   /\ UNCHANGED <<pc, retval, browser_restart_count, sessions>>
              ELSE /\ attempt' = attempt + 1
                   /\ ExitReturning("False")
    /\ UNCHANGED <<shutdown_requested, nav_attempt, now, browser, spc,
                   restart_no, setup_attempt, setup_error, nav_ok,
                   startup_failed>>
    /\ UNCHANGED sessionRestButPage

\* The first attempt at an item timed out or raised a connection error:
\* the wrapper awaits _restart_browser under its 30 second timeout.
ItemAsksRestart ==
    /\ pc = "movie_details" /\ spc = "coord"
    /\ now < MaxCalls
    /\ now' = now + 1
    /\ spc' = "close"
    /\ restart_no' = 1
    /\ UNCHANGED <<coordVars, browser, sessions, setup_attempt, setup_error,
                   nav_ok, startup_failed>>
    /\ UNCHANGED sessionRest

\* _restart_browser: `await self.close()`, then into _setup_browser.
RestartClose ==
    /\ spc = "close"
    /\ sessions' = close(sessions, browser)
    /\ spc' = "setup"
    /\ setup_attempt' = 0
    /\ setup_error' = ""
    /\ UNCHANGED <<coordVars, now, browser, restart_no, nav_ok, startup_failed>>
    /\ UNCHANGED sessionRest

\* _restart_browser: the navigation back to the homepage and the raise when
\* it returns False.
RestartNavigate ==
    /\ spc = "navigate"
    /\ \E cond \in HomepageConds :
         LET returned == navigate_to_homepage(cond)
         IN /\ nav_ok' = BoolText(returned)
            /\ IF returned
               THEN spc' = "retry" /\ UNCHANGED restart_no
               ELSE RestartRaised(ErrRestartNavigation)
    /\ UNCHANGED <<coordVars, now, browser, sessions, setup_attempt,
                   setup_error, startup_failed>>
    /\ page_fresh' = TRUE
    /\ UNCHANGED sessionRestButPage

\* The 30 second timeout of the wrapper cuts _restart_browser short at the
\* call it is awaiting: the CancelledError passes every `except Exception`
\* and the wrapper returns a placeholder.
RestartTimeout ==
    /\ spc \in {"close", "setup", "navigate"}
    /\ restart_no # 0
    /\ ItemOver
    /\ UNCHANGED <<coordVars, now, browser, sessions, setup_attempt,
                   setup_error, nav_ok, startup_failed>>
    /\ UNCHANGED sessionRest

\* The attempt at the item after a restart that returned: it ends the item
\* or, after the first restart, raises a connection error that is answered
\* by the second restart.
RetryAfterRestart ==
    /\ spc = "retry"
    /\ \E connection_error \in BOOLEAN :
         IF connection_error /\ restart_no = 1
         THEN spc' = "close" /\ restart_no' = 2
         ELSE ItemOver
    /\ UNCHANGED <<coordVars, now, browser, sessions, setup_attempt,
                   setup_error, nav_ok, startup_failed>>
    /\ UNCHANGED sessionRest

\* Both detail passes are over: `return True` out of the `with` block.
PassesDone ==
    /\ pc = "movie_details" /\ spc = "coord"
    /\ ExitReturning("True")
    /\ UNCHANGED <<shutdown_requested, nav_attempt, attempt, now, browser, spc,
                   restart_no, setup_attempt, setup_error, nav_ok,
                   startup_failed>>
    /\ UNCHANGED sessionRest

InitSession ==
    /\ PipelineAtRest
    /\ db_movies = <<>>
    /\ db_cinemas = <<>>
    /\ store_faults = 0
    /\ AdapterIdle

NextSession ==
    \/ signal_handler
    \/ EnterSession
    \/ LaunchAttempt
    \/ SessionNavigation
    \/ SessionListing
    \/ ItemAsksRestart
    \/ RestartClose
    \/ RestartNavigate
    \/ RestartTimeout
    \/ RetryAfterRestart
    \/ PassesDone

SpecSession == InitSession /\ [][NextSession]_vars

\* The same under the scheduling of a single thread of control whose awaited
\* calls all return, raise or time out: a step that can be taken is taken.
SpecSessionFair == SpecSession /\ WF_vars(NextSession)

(***************************************************************************)
(* The scheduler (schedule.py): a BlockingScheduler with the daily cron    *)
(* job 'movie_scraper_job' and the one-off date job 'initial_scrape', both *)
(* calling scheduled_scrape_job.  APScheduler hands a due job to its       *)
(* default executor, a thread pool, unless as many instances of that job   *)
(* as its max_instances allows are still running; the count is kept per    *)
(* job id.  Time is counted in ticks, DayTicks to a day; a run lasts any   *)
(* number of ticks.                                                        *)
(***************************************************************************)
DayTicks == 6
MaxFires == 3         \* 06:00 triggers followed

\* `max_instances=1` of 'movie_scraper_job'; also the default of add_job,
\* which 'initial_scrape' is added with.
max_instances == 1

\* The running instances the executor counts against max_instances when
\* job_id is due: those of that job.
instances_of(sched, job_id) ==
    IF job_id = "movie_scraper_job" THEN sched.movie_scraper_job
    ELSE IF sched.initial_scrape = "running" THEN 1 ELSE 0

\* The calls of run_scraper in progress, in the threads of the executor.
RunningScrapes ==
    scheduler.movie_scraper_job
    + (IF scheduler.initial_scrape = "running" THEN 1 ELSE 0)

\* scheduler.start(): 'initial_scrape' is due at once (run_date is the
\* moment add_job was called) and scheduled_scrape_job starts in a thread.
InitialScrapeStarts ==
    /\ scheduler.initial_scrape = "due"
    /\ scheduler' =
         [scheduler EXCEPT !.initial_scrape =
            IF instances_of(scheduler, "initial_scrape") < max_instances
            THEN "running" ELSE "skipped"]
    /\ UNCHANGED programVars

\* Time passes; the scheduler sleeps until the next job is due.
Tick ==
    /\ scheduler.initial_scrape # "due"
    /\ scheduler.until_daily > 0
    /\ scheduler' = [scheduler EXCEPT !.until_daily = @ - 1]
    /\ UNCHANGED programVars

\* 06:00 Hong Kong time: the cron trigger fires and 'movie_scraper_job' is
\* run, or skipped when its last instance is still running.
DailyTrigger ==
    /\ scheduler.initial_scrape # "none"
    /\ scheduler.until_daily = 0
    /\ scheduler.fired < MaxFires
    /\ scheduler' =
         IF instances_of(scheduler, "movie_scraper_job") < max_instances
         THEN [scheduler EXCEPT !.until_daily = DayTicks, !.fired = @ + 1,
                                !.movie_scraper_job = @ + 1]
         ELSE [scheduler EXCEPT !.until_daily = DayTicks, !.fired = @ + 1,
                                !.skipped = @ + 1]
    /\ UNCHANGED programVars

\* scheduled_scrape_job returns (run_scraper returned or raised) in the
\* thread of the startup job.
InitialScrapeEnds ==
    /\ scheduler.initial_scrape = "running"
    /\ scheduler' = [scheduler EXCEPT !.initial_scrape = "done"]
    /\ UNCHANGED programVars

\* scheduled_scrape_job returns in a thread of the daily job.
DailyScrapeEnds ==
    /\ scheduler.movie_scraper_job > 0
    /\ scheduler' = [scheduler EXCEPT !.movie_scraper_job = @ - 1]
    /\ UNCHANGED programVars

\* run_scheduler is called at any time of the day.
InitSchedule ==
    /\ ProgramIdle
    /\ db_movies = <<>>
    /\ db_cinemas = <<>>
    /\ store_faults = 0
    /\ AdapterIdle
    /\ \E start \in 0..(DayTicks - 1) :
         scheduler = [until_daily |-> start, initial_scrape |-> "due",
                      movie_scraper_job |-> 0, fired |-> 0, skipped |-> 0]

NextSchedule ==
    \/ InitialScrapeStarts
    \/ Tick
    \/ DailyTrigger
    \/ InitialScrapeEnds
    \/ DailyScrapeEnds

SpecSchedule == InitSchedule /\ [][NextSchedule]_vars

(***************************************************************************)
(* Properties.                                                             *)
(***************************************************************************)
\* Exception texts of the model that is_cloudflare_or_blocking accepts
\* (evaluated once).
BlockingErrorTexts ==
    { t \in OpErrorTexts \cup RestartErrorTexts : is_cloudflare_or_blocking(t) }

ConnFailure(e) == e.out = "raise" /\ e.arg \in ConnectionErrorTexts
OtherFailure(e) == e.out = "raise" /\ e.arg \notin ConnectionErrorTexts
TimedOut(e) == e.out = "timeout"
RestartsUpTo(trace, i) == Restarts(SubSeq(trace, 1, i))

\* The loop over the movies has visited every listed movie.
MoviePassDone ==
    pc = "movie_details" /\ wpc = "idle" /\ idx = Len(movies) + 1

\* C1: when the detail extraction of a movie or cinema ended on a failure
\* path (the wrapper returned one of its placeholders), the record is error
\* data for _is_error_data, the turn of the loop that finishes the item
\* leaves both tables as they are and calls neither add_movie nor
\* add_cinema, counts the item as processed and moves to the next item.
C1_DegradedItemNotWritten ==
    [][ (wpc = "done" /\ wpage = "" /\ wpc' = "idle")
        => /\ is_error_data(wres, DataType)
           /\ db_movies' = db_movies
           /\ db_cinemas' = db_cinemas
           /\ ~last_item'.add_called
           /\ InMoviePass => movies_processed' = movies_processed + 1
           /\ InCinemaPass => cinemas_processed' = cinemas_processed + 1
           /\ idx' = idx + 1
           /\ pc' = pc ]_vars

\* The first of two listed movies came back degraded, was counted and not
\* written, and the loop stands at the second movie.
C1_Witness ==
    /\ last_item.data_type = "movie"
    /\ last_item.degraded /\ last_item.error_data /\ ~last_item.add_called
    /\ Len(movies) = 2 /\ idx = 2
    /\ movies_processed = 1 /\ movies_added = 0
    /\ db_movies = <<>>

C3_RestartThenRetrySucceeds ==
    ( /\ Len(wtrace) >= 3
      /\ wtrace[1].op = "attempt" /\ ConnFailure(wtrace[1])
      /\ wtrace[2].op = "restart" /\ wtrace[2].out = "return"
      /\ wtrace[3].op = "attempt" /\ wtrace[3].out = "return" )
    => /\ Len(wtrace) = 3
       /\ wpc = "done"
       /\ wres = internal_result(DataType, Item.name, Item.url, wtrace[3].arg)
       /\ ~is_error_data(wres, DataType)
       /\ Restarts(wtrace) = 1

\* A movie read from its content page on the retry after a refused connection.
C3_Witness ==
    /\ InMoviePass /\ wpc = "done"
    /\ Len(wtrace) = 3
    /\ wtrace[1].arg = ErrConnection
    /\ wtrace[2].out = "return"
    /\ wtrace[3].out = "return" /\ wtrace[3].arg = "content"
    /\ wres.category = "Action"

\* C4: when the first attempt raised an exception matching no connection
\* pattern, the wrapper has returned a placeholder at once: no other call
\* was awaited for the item, neither a retry nor _restart_browser.
C4_UnknownFailureDegradesAtOnce ==
    (wtrace # <<>> /\ wtrace[1].op = "attempt" /\ OtherFailure(wtrace[1]))
    => /\ Len(wtrace) = 1
       /\ wpc = "done" /\ wpage = ""
       /\ is_error_data(wres, DataType)
       /\ wres = placeholder(DataType, "", "unknown", Item.name, Item.url)

\* A cinema whose only attempt raised an IndexError.
C4_Witness ==
    /\ InCinemaPass /\ wpc = "done"
    /\ wtrace = <<[op |-> "attempt", out |-> "raise", arg |-> ErrOther]>>
    /\ wres.address = "Error retrieving address"

\* C5 as stated: no _restart_browser call directly follows a failure whose
\* text matches a blocking pattern.
C5_BlockingNeverRestarts ==
    \A i \in 2..Len(wtrace) :
        (wtrace[i-1].out = "raise" /\ wtrace[i-1].arg \in BlockingErrorTexts)
        => wtrace[i].op # "restart"

\* C6 as stated: no stored record was built from a page carrying a blocking
\* signature.
C6_NoRowFromBlockedPage ==
    /\ \A i \in 1..Len(db_movies) : ~db_movies[i].from_blocked
    /\ \A i \in 1..Len(db_cinemas) : ~db_cinemas[i].from_blocked

C8_EmptyListings ==
    [][ /\ ( /\ pc = "list_movies" /\ ~shutdown_requested
             /\ attempt = max_retries - 1 /\ attempt' # attempt
             /\ movies' = <<>> )
          => /\ pc' = "returned" /\ retval' = "False"
             /\ wpc' = "idle"
             /\ db_movies' = db_movies /\ db_cinemas' = db_cinemas
        /\ pc' \in {"movie_details", "cinema_details"} => movies' # <<>>
        /\ ( /\ pc = "list_cinemas" /\ ~shutdown_requested
             /\ pc' # pc /\ cinemas' = <<>> )
          => (attempt = max_retries - 1 /\ pc' = "movie_details")
        /\ (pc = "movie_details" /\ cinemas = <<>> /\ pc' # pc)
          => (pc' = "returned" /\ retval' = "True") ]_vars

\* A run that found movies and no cinemas, wrote a movie and returned True.
C8_Witness ==
    /\ pc = "returned" /\ retval = "True"
    /\ movies # <<>> /\ cinemas = <<>>
    /\ Len(db_movies) = 1 /\ db_cinemas = <<>>
    /\ run = 1

\* C9 as stated: at the end of the movie pass, processed is the number of
\* listed movies.
C9_ProcessedIsListed ==
    MoviePassDone => movies_processed = Len(movies)

\* C9, as the counters behave: at the end of the movie pass processed counts
\* the movies whose detail extraction ran, skipped the others, so that
\* processed + skipped is the number of listed movies and added <= processed;
\* a listing of two with one skipped and one added reports processed = 1.
C9_ProcessedPlusSkipped ==
    MoviePassDone
    => /\ movies_processed + movies_skipped = Len(movies)
       /\ movies_added <= movies_processed
       /\ (Len(movies) = 2 /\ movies_skipped = 1 /\ movies_added = 1)
            => movies_processed = 1

\* The second run lists Movie A (stored by the first run) and Movie B (new,
\* read from its content page and written).
C9_Witness ==
    /\ MoviePassDone /\ run = 2 /\ store_faults = 0
    /\ Len(movies) = 2
    /\ movies[1].name = "Movie A" /\ movies[2].name = "Movie B"
    /\ movies_processed = 1 /\ movies_skipped = 1 /\ movies_added = 1
    /\ Len(db_movies) = 2
    /\ db_movies[1].name = "Movie A" /\ db_movies[2].name = "Movie B"
    /\ last_item.name = "Movie B" /\ last_item.added /\ ~last_item.blocked

\* C10: as long as no store call has failed, the movie table holds at most
\* one row per name: a movie written by one pass is found by the next pass
\* and not written again.
C10_OneWritePerMovie ==
    store_faults = 0
    => \A i, j \in 1..Len(db_movies) :
         db_movies[i].name = db_movies[j].name => i = j

\* The second run lists the movie the first run wrote and ends its movie
\* pass with the movie skipped, nothing added and the table unchanged.
C10_Witness ==
    /\ MoviePassDone /\ run = 2 /\ store_faults = 0
    /\ Len(movies) = 1
    /\ movies_skipped = 1 /\ movies_processed = 0 /\ movies_added = 0
    /\ Len(db_movies) = 1 /\ db_movies[1].name = movies[1].name

\* C11: the store never holds two showtime rows with the same (movie_id,
\* cinema_id, showtime instant, language), whatever blocks were processed,
\* on whatever days, with whatever store errors.
C11_ShowtimeKeyUnique ==
    \A i, j \in 1..Len(db_showtimes) :
        ( /\ db_showtimes[i].movie_id = db_showtimes[j].movie_id
          /\ db_showtimes[i].cinema_id = db_showtimes[j].cinema_id
          /\ db_showtimes[i].showtime = db_showtimes[j].showtime
          /\ db_showtimes[i].language = db_showtimes[j].language ) => i = j

\* Two blocks have been processed on different days without a store error;
\* the second offered only a showtime the store already held and the call
\* skipped it, and its two time strings denoted the same instant.
C11_Witness ==
    /\ now = 2
    /\ today = LastDay
    /\ store_faults = 0
    /\ call.op = "_process_movie_showtimes"
    /\ result.showtimes_added = 0
    /\ result.showtimes_skipped = 2
    /\ Len(db_showtimes) = 1
    /\ db_showtimes[1].showtime = "2024-01-01T09:30:00"

\* C12: the store holds at most one movie record and at most one cinema
\* record per name, also after calls in which a name lookup failed with a
\* store error.
C12_OneRecordPerName ==
    /\ \A i, j \in 1..Len(db_movies) :
          db_movies[i].name = db_movies[j].name => i = j
    /\ \A i, j \in 1..Len(db_cinemas) :
          db_cinemas[i].name = db_cinemas[j].name => i = j

\* The mapping generate_content_hash is given for a stored movie.
RowMapping(row) ==
    << <<"name", row.name>>, <<"category", row.category>>,
       <<"description", row.description>> >>

\* C13: each stored movie carries a content fingerprint, and it equals the
\* fingerprint recomputed from the stored name, category and description.
C13_StoredFingerprintMatches ==
    \A i \in 1..Len(db_movies) :
        /\ "content_hash" \in DOMAIN db_movies[i]
        /\ db_movies[i].content_hash = generate_content_hash(RowMapping(db_movies[i]))

\* C14: a movie the store holds with a synopsis other than any its page can
\* show now is updated by a later run that lists it: when the movie pass of
\* that run is over and no store call has failed, the row is no longer what
\* the earlier run left.
C14_ChangedMovieUpdated ==
    (MoviePassDone /\ store_faults = 0)
    => \A i \in 1..Len(db_movies) :
         (\E k \in 1..Len(movies) : movies[k].name = db_movies[i].name)
         => db_movies[i] # EarlierMovie(db_movies[i].name)

\* Two mappings agree on name, category and description after trimming.
SameTrimmed(a, b) ==
    \A key \in {"name", "category", "description"} :
        strip(get(a, key, "")) = strip(get(b, key, ""))

\* C15: two mappings get the same digest from generate_content_hash exactly
\* when they agree on the trimmed values of name, category and description,
\* whatever the order of their keys and whatever other fields they carry.
C15_DigestFollowsTrimmedFields ==
    (call.op = "generate_content_hash" /\ now = 1)
    => (SameTrimmed(call.first, call.second) <=> result[1] = result[2])

\* Two mappings with their keys in different orders, one with a url and a
\* padded name, the other without a category key at all, got one digest.
C15_Witness ==
    /\ call.op = "generate_content_hash" /\ now = 1
    /\ call.first = << <<"url", BaseUrl \o Href("Movie A")>>, <<"category", "">>,
                       <<"name", " Movie A ">>, <<"description", "A \"film\"">> >>
    /\ call.second = << <<"name", "Movie A">>, <<"description", "A \"film\"">> >>
    /\ result[1] = result[2]
    /\ result[1] = "5d32be6c0ea76300f15c412912ed4132"

\* C16: should_update_movie returns True exactly when there is no stored
\* digest or the current digest differs from the stored one.
C16_UpdateIffAbsentOrChanged ==
    (call.op = "should_update_movie" /\ now = 1)
    => ( result = TRUE
         <=> (call.stored_hash = NoDigest \/ call.current_hash # call.stored_hash) )

\* A call with a stored digest equal to the current one returned False.
C16_Witness ==
    /\ call.op = "should_update_movie" /\ now = 1
    /\ call.stored_hash # NoDigest
    /\ call.current_hash = call.stored_hash
    /\ result = FALSE

\* The labels of the model that are a day and a month, with their numbers.
LabelOf(d, m) == ToText(d) \o "/" \o ToText(m)

\* C17 as stated: a label for a day and month that exist in the current year
\* resolves to that date when it is today or later and to the same day and
\* month of the next year when it is before today.
C17_RollsToNextYear ==
    (call.op = "_parse_date_text" /\ now = 1)
    => \A d \in DayNumbers, m \in MonthNumbers :
         (call.date_text = LabelOf(d, m) /\ IsValidDate(call.current_year, m, d))
         => /\ result = IF DateBefore(date(call.current_year, m, d), today)
                        THEN date(call.current_year + 1, m, d)
                        ELSE date(call.current_year, m, d)
            /\ ~DateBefore(result, today)

\* C17: a label d/m whose day and month exist in the current year resolves
\* to that date when it is today or later; when it is before today it
\* resolves to the same day and month of the next year if the next year has
\* that day, and to None if it has not (29/2 of a leap year).  A date that is
\* returned is never before today.
C17_ParseDatePolicy ==
    (call.op = "_parse_date_text" /\ now = 1)
    => /\ \A d \in DayNumbers, m \in MonthNumbers :
            (call.date_text = LabelOf(d, m) /\ IsValidDate(call.current_year, m, d))
            => result =
                 IF ~DateBefore(date(call.current_year, m, d), today)
                      THEN date(call.current_year, m, d)
                 ELSE IF IsValidDate(call.current_year + 1, m, d)
                      THEN date(call.current_year + 1, m, d)
                 ELSE NoDate
       /\ result # NoDate => ~DateBefore(result, today)

\* The label 1/1 read on December 31 resolved to January 1 of the next year.
C17_Witness ==
    /\ call.op = "_parse_date_text" /\ now = 1
    /\ call.date_text = "1/1"
    /\ today = date(2023, 12, 31)
    /\ result = date(2024, 1, 1)

\* What one upsert call whose requests all succeeded has to do to a table:
\* with rows of that name before the call, one of them carries the new
\* values, its id is returned and the other rows and the number of rows are
\* as before; with no such row, the table is the old one plus one row with
\* the new values.
UpsertContract(before, after) ==
    LET data == call'.data
        named == RowsNamed(before, data.name)
    IN IF named # {}
       THEN /\ Len(after) = Len(before)
            /\ result' \in named
            /\ \A k \in DOMAIN data : after[result'][k] = data[k]
            /\ \A i \in 1..Len(before) : i # result' => after[i] = before[i]
       ELSE /\ Len(after) = Len(before) + 1
            /\ SubSeq(after, 1, Len(before)) = before
            /\ \A k \in DOMAIN data : after[Len(after)][k] = data[k]
            /\ RowsNamed(after, data.name) = {Len(after)}

\* C18: upsert_movie / upsert_cinema with a name that is in the store
\* updates that record, returns its id and leaves the number of records
\* unchanged; with a name that is not in the store it inserts exactly one
\* record (calls whose store requests all succeed).
C18_UpsertUpdatesOrInserts ==
    [][ (now' = now + 1 /\ store_faults' = store_faults)
        => /\ call'.op = "upsert_movie" => UpsertContract(db_movies, db_movies')
           /\ call'.op = "upsert_cinema" => UpsertContract(db_cinemas, db_cinemas')
      ]_vars

\* A second upsert_movie of a stored name changed the category of the one
\* record, kept what the insert had stamped and returned the id 1.
C18_Witness ==
    /\ call.op = "upsert_movie" /\ call.existing = 1 /\ result = 1
    /\ store_faults = 0
    /\ Len(db_movies) = 1
    /\ db_movies[1].category = "Drama" /\ call.data.category = "Drama"
    /\ db_movies[1].created_at = 0 /\ call.at = 1

\* The table an upsert call wrote to.
TableOf(op) == IF op = "upsert_movie" THEN db_movies ELSE db_cinemas

\* C19: for movies and for cinemas, the record an upsert inserted carries
\* the time of the call as created_at, and the record an upsert updated
\* carries the time of the call as last_updated.
C19_StampsOnInsertAndUpdate ==
    (call.op \in {"upsert_movie", "upsert_cinema"} /\ result # 0)
    => LET row == TableOf(call.op)[result]
       IN IF call.existing = 0
          THEN "created_at" \in DOMAIN row /\ row.created_at = call.at
          ELSE "last_updated" \in DOMAIN row /\ row.last_updated = call.at

\* C20: after mark_inactive_movies(active_movie_names) returned True, every
\* stored movie, whatever its name, is active exactly when its name is in
\* active_movie_names.
C20_ActiveIffListed ==
    (call.op = "mark_inactive_movies" /\ result = TRUE)
    => \A i \in 1..Len(db_movies) :
         db_movies[i].is_active
         <=> \E j \in 1..Len(call.active_movie_names) :
               call.active_movie_names[j] = db_movies[i].name

\* C21: a call of the store adapter that reports failure (None, here id 0,
\* or False) has left the tables as they were before the call.
C21_FailureLeavesStoreUnchanged ==
    [][ ( /\ now' = now + 1
          /\ \/ call'.op \in {"upsert_movie", "upsert_cinema"} /\ result' = 0
             \/ call'.op = "mark_inactive_movies" /\ result' = FALSE )
        => /\ db_movies' = db_movies
           /\ db_cinemas' = db_cinemas
      ]_vars

\* The entries of the dropdown a listing was read from.
MenuRead ==
    IF call.op = "scrape_movie_showings" THEN call.dropdown.names
    ELSE LET read == { k \in 1..cinemas_max_retries :
                         cinemas_in(call.dropdowns[k]) # <<>> }
         IN IF read = {} THEN <<>>
            ELSE call.dropdowns[CHOOSE k \in read : \A j \in read : k <= j].names

\* C30: the sequence scrape_movie_showings / scrape_cinemas returns holds
\* no (name, link) entry twice, whatever the dropdown holds; its links are
\* absolute and its entries are in the order of the page.
C30_ListingDeduplicated ==
    (call.op \in {"scrape_movie_showings", "scrape_cinemas"} /\ now = 1)
    => /\ \A i, j \in 1..Len(result) : i # j => result[i] # result[j]
       /\ \A i \in 1..Len(result) :
            /\ SubSeq(result[i].url, 1, Len(BaseUrl) + 1) = BaseUrl \o "/"
            /\ \E k \in 1..Len(MenuRead) :
                 /\ MenuRead[k] = result[i].name
                 /\ \A j \in 1..(i - 1) : \E h \in 1..k : MenuRead[h] = result[j].name

\* The step in which scrape_movie_details / scrape_cinema_details is called
\* for the next item of the listing.
DetailExtractionStarts == wpc = "idle" /\ wpc' = "try1"

\* C28: once the signal handler has set the shutdown flag, no detail
\* extraction of a further movie or cinema is started; the one in flight
\* may finish.
C28_NoNewItemAfterShutdown ==
    [][ shutdown_requested => ~DetailExtractionStarts ]_vars

\* The phases of a run in the order of run_scraper_with_retry.
PhaseNo(p) ==
    CASE p = "top" -> 0
      [] p = "nav" -> 1
      [] p = "list_movies" -> 2
      [] p = "list_cinemas" -> 3
      [] p = "movie_details" -> 4
      [] p = "cinema_details" -> 5
      [] OTHER -> 6

\* C29: a run goes through homepage navigation, movie listing, cinema
\* listing, the movie detail pass and the cinema detail pass in this order,
\* one phase at a time (a failed navigation starts over with a new session,
\* any phase may end the run).  Detail extractions run only inside the two
\* passes, movie rows are written only in the movie pass and cinema rows
\* only in the cinema pass, and the movie pass is left only between items,
\* with every listed movie handled.
C29_PhasesInOrder ==
    [][ /\ pc' # pc
           => \/ PhaseNo(pc') = PhaseNo(pc) + 1
              \/ pc' = "returned"
              \/ pc = "nav" /\ pc' = "top"
              \/ pc = "returned" /\ pc' = "top" /\ run' = run + 1
        /\ wpc' # "idle" => pc' \in {"movie_details", "cinema_details"}
        /\ db_movies' # db_movies => pc = "movie_details" /\ pc' = pc
        /\ db_cinemas' # db_cinemas => pc = "cinema_details" /\ pc' = pc
        /\ (pc = "movie_details" /\ pc' # pc)
           => wpc = "idle" /\ idx > Len(movies)
      ]_vars

\* The first cinema's detail extraction is in flight in a run whose movie
\* pass has stored a movie.
C29_Witness ==
    /\ pc = "cinema_details" /\ idx = 1 /\ wpc = "try1"
    /\ run = 1
    /\ Len(db_movies) >= 1


\* A turn of the launch loop of _setup_browser, and the two ways out of it.
LaunchStep == spc = "setup" /\ setup_attempt' = setup_attempt + 1
SetupReturned == LaunchStep /\ (pc' = "nav" \/ spc' = "navigate")
SetupRaised == LaunchStep /\ spc' # "setup" /\ ~SetupReturned

\* C22: _setup_browser launches at most setup_max_retries (3) times, each
\* attempt under a longer timeout than the one before; it returns only with
\* a browser that this call launched, and when it raises self.browser is
\* None and no session it touched is left running.
C22_SetupBoundedAndAllOrNothing ==
    [][ /\ LaunchStep =>
             /\ setup_attempt < setup_max_retries
             /\ \A earlier \in 0..(setup_attempt - 1) :
                    startup_timeout(earlier) < startup_timeout(setup_attempt)
        /\ SetupReturned =>
             /\ browser' = Len(sessions) + 1
             /\ Len(sessions') = Len(sessions) + 1
             /\ sessions'[browser'] = "launched"
        /\ SetupRaised =>
             /\ browser' = 0
             /\ \A i \in DOMAIN sessions' : sessions'[i] = "released"
             /\ Contains(setup_error', "timed out") => setup_attempt' = setup_max_retries
      ]_vars

\* Three launches timed out, the last one under 50 seconds, and the set-up
\* raised with no browser.
C22_Witness ==
    /\ startup_failed
    /\ setup_attempt = setup_max_retries
    /\ setup_error = "Browser startup timed out after 50 seconds"
    /\ browser = 0
    /\ sessions = <<>>
    /\ pc = "top"
    /\ browser_restart_count = 1


\* C23: once _setup_browser has raised after its bounded launch attempts,
\* no further browser launch is attempted in that run.
C23_NoLaunchAfterStartupError ==
    [][ startup_failed => ~LaunchStep ]_vars


\* A call of scrape_movie_showings by the listing loop.
ListingStep ==
    /\ pc = "list_movies" /\ ~shutdown_requested
    /\ pc' # pc \/ attempt' # attempt

\* C25: the coordinator reaches the movie listing only when a homepage
\* navigation of the session has returned True, every call of the listing,
\* first or retry, finds the last navigation of the session successful, and
\* _restart_browser returns normally only when its navigation returned True
\* (it raises when it returned False).
C25_NoListingAfterFailedNavigation ==
    [][ /\ pc' = "list_movies" => nav_ok' = "True"
        /\ ListingStep => nav_ok = "True"
        /\ (spc = "navigate" /\ spc' = "retry") => nav_ok' = "True"
        /\ (spc = "navigate" /\ nav_ok' = "False") =>
              /\ spc' \in {"close", "coord"}
              /\ spc' = "close" => restart_no' = 2
      ]_vars

\* The second call of the listing, on the page the navigation of this
\* session left in English.
C25_Witness ==
    /\ pc = "list_movies" /\ attempt = 1
    /\ nav_ok = "True"
    /\ browser = 1 /\ sessions = <<"launched">>
    /\ ~shutdown_requested


\* The sessions that were launched and whose stop has not been attempted.
Running(all_sessions) ==
    { i \in DOMAIN all_sessions : all_sessions[i] = "launched" }

\* C26: in every _restart_browser, also one cut short by the restart
\* timeout of the wrapper, the stop of the old session has been attempted
\* before zd.start is called, so that at most one launched session exists
\* at any time and self.browser refers to it.
C26_ReleaseBeforeLaunch ==
    [][ /\ LaunchStep => Running(sessions) = {}
        /\ Running(sessions') \subseteq {browser'}
        /\ (spc = "close" /\ spc' = "setup") => Running(sessions') = {}
        /\ (restart_no # 0 /\ restart_no' = 0) => Running(sessions') \subseteq {browser'}
      ]_vars

\* A restart has stopped the first session and launched the second, and is
\* about to navigate to the homepage.
C26_Witness ==
    /\ restart_no = 1 /\ spc = "navigate"
    /\ sessions = <<"released", "launched">>
    /\ browser = 2
    /\ pc = "movie_details"


\* The `with` block of run_scraper_with_retry is left, by a return or by
\* an exception.
SessionExit ==
    /\ pc \in {"nav", "list_movies", "movie_details"}
    /\ pc' \in {"returned", "top"}

\* C27: on every way out of the `with` block of run_scraper_with_retry
\* (return True, return False on shutdown or on an empty listing, the
\* exception of a failed navigation) close has been called on the session
\* the scraper holds before the function returns and before the next
\* session is set up, and the call does not change the way out: the return
\* value and the handling of the exception are those of the exit taken.
C27_ClosedOnEveryExit ==
    [][ /\ SessionExit =>
             /\ browser # 0 => sessions'[browser] = "released"
             /\ Running(sessions') = {}
             /\ pc = "movie_details" => (pc' = "returned" /\ retval' = "True")
             /\ pc = "list_movies" => (pc' = "returned" /\ retval' = "False")
             /\ (pc = "nav" /\ shutdown_requested) => (pc' = "returned" /\ retval' = "False")
        /\ pc' = "returned" => Running(sessions') = {}
        /\ (pc = "top" /\ spc = "coord" /\ spc' = "setup") => Running(sessions) = {}
      ]_vars

\* The run returned True after a restart inside a pass: both the session
\* of __enter__ and the one of the restart were stopped.
C27_Witness ==
    /\ pc = "returned" /\ retval = "True"
    /\ sessions = <<"released", "released">>
    /\ browser = 2
    /\ now = 1


\* The turns of the language loop that the page offers within the limit of
\* the loop, and whether one of them shows the page in English, at once or
\* after the click on the switcher.
TurnsWithinLimit(home) ==
    { k \in DOMAIN home.turns : k <= 5 }
EnglishObserved(turn) ==
    \/ turn.lang \in {"en", "en-US"}
    \/ turn.click = "clicked" /\ turn.updated \in {"en", "en-US"}

\* C24: navigate_to_homepage returns a boolean on every page (it never
\* raises); it returns True only when the page was loaded, the status check
\* flagged neither a CAPTCHA nor an access-denied page, and one of the
\* first five turns of the language loop showed a lang attribute beginning
\* with "en", before or after a click on the switcher; when none of the
\* five did, it returns False.
C24_NavigationPolicy ==
    (now = 1 /\ call.op = "navigate_to_homepage") =>
        LET home == call.home
        IN  /\ result \in BOOLEAN
            /\ result = TRUE =>
                 /\ home.get = "page"
                 /\ home.status_raises \/ home.page = "content"
                 /\ \E k \in TurnsWithinLimit(home) :
                        /\ EnglishObserved(home.turns[k])
                        /\ \A j \in 1..(k - 1) : home.turns[j].lang # Raises
            /\ (\A k \in TurnsWithinLimit(home) :
                    ~EnglishObserved(home.turns[k])) => result = FALSE

\* The fifth click on the switcher turned the page to English after four
\* turns that did not, and the navigation returned True.
C24_Witness ==
    /\ now = 1
    /\ call.op = "navigate_to_homepage"
    /\ call.home.page = "content"
    /\ Len(call.home.turns) = 5
    /\ call.home.turns[1] = NotSwitchedTurn
    /\ call.home.turns[2] = NoSwitcherTurn
    /\ call.home.turns[3] = ClickRaisesTurn
    /\ call.home.turns[4] = UpdatedUnreadableTurn
    /\ call.home.turns[5] = SwitchedTurn
    /\ result = TRUE


\* How far the wrapper has got with the item in hand.
StageNo(w) ==
    CASE w = "try1" -> 1
      [] w = "restart1" -> 2
      [] w = "try2" -> 3
      [] w = "restart2" -> 4
      [] w = "try3" -> 5
      [] OTHER -> 6

\* C38: for one item the wrapper awaits the detail operation at most 3
\* times and _restart_browser at most 2 times, and every awaited call that
\* returns, raises or times out moves the wrapper strictly forward, so the
\* item is over after at most five awaited calls.
C38_ItemHandlingBounded ==
    [][ /\ Attempts(wtrace') <= 3
        /\ Restarts(wtrace') <= 2
        /\ Len(wtrace') = Attempts(wtrace') + Restarts(wtrace')
        /\ (StageNo(wpc) <= 5 /\ wtrace' # wtrace) =>
              /\ Len(wtrace') = Len(wtrace) + 1
              /\ StageNo(wpc') > StageNo(wpc)
        /\ (StageNo(wpc) <= 5 /\ wpc' # wpc) => wtrace' # wtrace
      ]_vars

\* A cinema whose third attempt, after the second restart, failed too.
C38_Witness ==
    /\ InCinemaPass
    /\ wpc = "done" /\ wpage = ""
    /\ Len(wtrace) = 5
    /\ wtrace[5].op = "attempt" /\ wtrace[5].out # "return"
    /\ wtrace[4].op = "restart"


\* C34: the detail operation is awaited again for an item only directly
\* after an awaited _restart_browser call that returned under its 30 second
\* timeout; after a restart that timed out or raised no attempt follows.
C34_RetryOnlyAfterCompletedRestart ==
    /\ \A i \in 2..Len(wtrace) :
         wtrace[i].op = "attempt" =>
             /\ wtrace[i-1].op = "restart"
             /\ wtrace[i-1].out = "return"
             /\ \E j \in 1..(i - 2) :
                    /\ wtrace[j].op = "attempt"
                    /\ TimedOut(wtrace[j]) \/ ConnFailure(wtrace[j])
    /\ wpc \in {"try2", "try3"} =>
         /\ Len(wtrace) >= 2
         /\ wtrace[Len(wtrace)].op = "restart"
         /\ wtrace[Len(wtrace)].out = "return"

\* The first attempt timed out, the restart returned, and the retry read
\* the item from a content page.
C34_Witness ==
    /\ wpc = "done" /\ wpage \in ContentPages
    /\ Len(wtrace) = 3
    /\ TimedOut(wtrace[1])
    /\ wtrace[2].op = "restart" /\ wtrace[2].out = "return"
    /\ wtrace[3].op = "attempt" /\ wtrace[3].out = "return"


\* C39: inside scrape_all_movie_details, between two turns of the loop and
\* while an item is in hand, processed + skipped is the number of movies
\* the loop has finished and added <= processed; inside
\* scrape_all_cinema_details processed is the number of cinemas finished
\* and skipped + added <= processed.
C39_CounterRelations ==
    /\ InMoviePass =>
         /\ idx \in 1..(Len(movies) + 1)
         /\ movies_processed + movies_skipped = idx - 1
         /\ movies_added <= movies_processed
    /\ InCinemaPass =>
         /\ idx \in 1..(Len(cinemas) + 1)
         /\ cinemas_processed = idx - 1
         /\ cinemas_skipped + cinemas_added <= cinemas_processed

\* A later run: the movie pass skipped one movie and processed the other,
\* and the cinema pass has just counted a cinema already in the store as
\* processed and skipped.
C39_Witness ==
    /\ run = 2
    /\ InCinemaPass /\ wpc = "idle" /\ idx = 2
    /\ cinemas_processed = 1 /\ cinemas_skipped = 1 /\ cinemas_added = 0
    /\ Len(db_movies) = 2


\* A step of run_scraper_with_retry from one of its checkpoints.
CheckpointStep ==
    /\ pc \in {"top", "nav", "list_movies", "list_cinemas"}
    /\ <<pc, retval, browser_restart_count, nav_attempt, attempt, movies,
         cinemas>>' #
       <<pc, retval, browser_restart_count, nav_attempt, attempt, movies,
         cinemas>>

\* C36: with the flag set, the step run_scraper_with_retry takes from the
\* top of the restart loop, from a turn of the navigation loop or from a
\* turn of either listing loop is `return False` alone: no launch, no
\* navigation and no listing is made; and within a run the flag, once set,
\* stays set.
C36_CheckpointsReturnFalse ==
    [][ /\ (shutdown_requested /\ CheckpointStep) =>
              /\ pc' = "returned" /\ retval' = "False"
              /\ <<browser_restart_count, nav_attempt, attempt, movies,
                   cinemas>>' =
                 <<browser_restart_count, nav_attempt, attempt, movies, cinemas>>
        /\ (shutdown_requested /\ run' = run) => shutdown_requested'
      ]_vars

\* The signal arrived after the movies were listed: the run returned False
\* from the checkpoint of the cinema listing loop without listing cinemas.
C36_Witness ==
    /\ pc = "returned" /\ retval = "False"
    /\ shutdown_requested
    /\ run = 1
    /\ Len(movies) = 2 /\ cinemas = <<>>
    /\ attempt = 0
    /\ db_movies = <<>>


\* A call of scrape_movie_showings that follows a failed one.
MovieListingRetry ==
    /\ pc = "list_movies" /\ ~shutdown_requested
    /\ attempt > 0
    /\ <<pc, attempt, movies, retval>>' # <<pc, attempt, movies, retval>>

\* C37: a movie listing attempt that follows a failed one is made on a
\* homepage that was loaded again after the failure.
C37_ReloadBeforeListingRetry ==
    [][ MovieListingRetry => page_fresh ]_vars


\* `with MovieScraperSync(...)` at the top of the restart loop opens a
\* session of run_scraper_with_retry.
SessionStart == pc = "top" /\ spc = "coord" /\ spc' = "setup"

\* An exception reaches the except clause of the restart loop: the raise
\* after the navigation loop, or _setup_browser raising out of __enter__.
RunException ==
    \/ pc = "nav" /\ spc = "coord" /\ nav_attempt' = max_nav_retries
    \/ /\ pc = "top" /\ spc = "setup" /\ spc' = "coord"
       /\ pc' # "nav"

\* The text of that exception.
RaisedText ==
    IF pc = "nav" THEN ErrNavigation ELSE SetupErrorText(setup_error')

\* A browser is launched.
BrowserLaunched == Len(sessions') > Len(sessions)

\* C35: run_scraper_with_retry always returns, and it opens at most
\* max_browser_restarts + 1 sessions (`with MovieScraperSync`).  A session
\* is opened only with browser_restart_count within the limit, the count
\* moves only in the except clause, by one and only for an exception that
\* is_browser_error accepts; any other exception, or one that takes the
\* count over the limit, is answered by `return False`, and nothing is
\* launched after the return.  A browser is launched only by the set-up
\* of such a session or by a _restart_browser call made for an item
\* inside it.
C35_SessionsBoundedAndRunReturns ==
    /\ [][ /\ SessionStart =>
                /\ browser_restart_count <= max_browser_restarts
                /\ ~shutdown_requested
           /\ RunException =>
                IF /\ RaisedText \in BrowserErrorTexts
                   /\ browser_restart_count + 1 <= max_browser_restarts
                THEN /\ pc' = "top"
                     /\ browser_restart_count' = browser_restart_count + 1
                ELSE /\ pc' = "returned" /\ retval' = "False"
                     /\ browser_restart_count' <= max_browser_restarts + 1
           /\ browser_restart_count' # browser_restart_count => RunException
           /\ BrowserLaunched =>
                \/ restart_no = 0 /\ pc = "top" /\ spc = "setup"
                \/ restart_no \in 1..2 /\ pc = "movie_details"
           /\ pc = "returned" => pc' = "returned" /\ sessions' = sessions
         ]_vars
    /\ <>(pc = "returned")

\* Four sessions in a row failed to start with a browser error, and the
\* run returned False when the count went over the limit.
C35_Witness ==
    /\ pc = "returned" /\ retval = "False"
    /\ browser_restart_count = max_browser_restarts + 1
    /\ startup_failed
    /\ sessions = <<>>


\* C31: every cinema whose detail extraction gave a record that is not
\* error data had _scrape_showtimes_for_cinema called for it in the same
\* pass, a cinema that was not in the store when its page was read
\* included.
C31_ShowtimesForEveryValidCinema ==
    ( /\ last_item.data_type = "cinema"
      /\ ~last_item.degraded /\ ~last_item.error_data )
    => call = [ op |-> "_scrape_showtimes_for_cinema",
                cinema_name |-> last_item.name ]


\* A call of _process_movie_showtimes.
ProcessesBlock == now' = now + 1 /\ call'.op = "_process_movie_showtimes"

\* C32: showtime rows are written only by a call of
\* _process_movie_showtimes whose movie name and whose cinema are in the
\* store at that moment, and the rows it writes carry the ids of that movie
\* and that cinema; a call for a movie name that is not in the store
\* writes nothing; and every stored showtime references a stored movie and
\* a stored cinema.
C32_ShowtimesReferenceStoredRows ==
    [][ /\ db_showtimes' # db_showtimes =>
             /\ ProcessesBlock
             /\ RowsNamed(db_movies, call'.movie_name) # {}
             /\ RowsNamed(db_cinemas, call'.cinema_name) # {}
             /\ \A i \in (Len(db_showtimes) + 1)..Len(db_showtimes') :
                  /\ db_showtimes'[i].movie_id
                        \in RowsNamed(db_movies, call'.movie_name)
                  /\ db_showtimes'[i].cinema_id
                        \in RowsNamed(db_cinemas, call'.cinema_name)
        /\ (ProcessesBlock /\ RowsNamed(db_movies, call'.movie_name) = {})
             => db_showtimes' = db_showtimes
        /\ \A i \in 1..Len(db_showtimes') :
             /\ db_showtimes'[i].movie_id \in 1..Len(db_movies')
             /\ db_showtimes'[i].cinema_id \in 1..Len(db_cinemas')
      ]_vars

\* Showtimes of Movie A were stored for Cinema Y, and the block of Movie C,
\* a movie that is not in the store, has just been processed without a
\* write.
C32_Witness ==
    /\ call = [ op |-> "_process_movie_showtimes", cinema_name |-> "Cinema Y",
                movie_name |-> "Movie C" ]
    /\ result = [showtimes_added |-> 0, showtimes_skipped |-> 0]
    /\ Len(db_showtimes) = 2
    /\ \A i \in 1..2 : db_movies[db_showtimes[i].movie_id].name = "Movie A"
    /\ \A i \in 1..2 : db_cinemas[db_showtimes[i].cinema_id].name = "Cinema Y"


\* The rows after the header.
DetailRows == SubSeq(output_file, 2, Len(output_file))

\* The detail extraction of the item in hand is over and the rest of its
\* turn of the loop is run.
ExtractionOver == (InMoviePass \/ InCinemaPass) /\ wpc = "done" /\ wpc' = "idle"

\* A detail pass is entered.
MoviePassStarts == pc # "movie_details" /\ pc' = "movie_details"
CinemaPassStarts == pc # "cinema_details" /\ pc' = "cinema_details"

\* C33: the detail tables are written row by row.  A pass starts its table
\* with the header row alone; the turn of an item whose detail extraction
\* is over appends one row, that of the item, and no other step of the pass
\* touches the table.  So throughout a pass the table is the header
\* followed by one row for each item extracted so far, in listing order
\* (every cinema before the current one; the movies before the current one
\* that were not skipped as already stored), and ending the run after any
\* item leaves the earlier rows in place.
C33_RowsWrittenIncrementally ==
    [][ /\ MoviePassStarts => output_file' = <<MovieCsvHeader>>
        /\ CinemaPassStarts => output_file' = <<CinemaCsvHeader>>
        /\ ExtractionOver =>
             /\ Len(output_file') = Len(output_file) + 1
             /\ SubSeq(output_file', 1, Len(output_file)) = output_file
             /\ output_file'[Len(output_file')][1] = Item.name
             /\ output_file'[Len(output_file')][2] = Item.url
             /\ output_file'[Len(output_file')][3] =
                  IF InMoviePass THEN wres.category ELSE wres.address
        /\ ( /\ ~ExtractionOver /\ ~MoviePassStarts /\ ~CinemaPassStarts )
             => output_file' = output_file
        /\ InMoviePass' =>
             /\ output_file'[1] = MovieCsvHeader
             /\ Len(output_file') = 1 + movies_processed'
             /\ \A i \in 2..Len(output_file') :
                  \E a \in 1..(idx' - 1) :
                     /\ movies'[a].name = output_file'[i][1]
                     /\ \A j \in 2..(i - 1) :
                          \E b \in 1..(a - 1) :
                             movies'[b].name = output_file'[j][1]
        /\ InCinemaPass' =>
             /\ output_file'[1] = CinemaCsvHeader
             /\ Len(output_file') = 1 + cinemas_processed'
             /\ \A a \in 1..(idx' - 1) :
                  output_file'[a + 1][1] = cinemas'[a].name
      ]_vars

\* A later run: the first listed movie was skipped as already stored, the
\* second was extracted, and the table holds the header and the row of the
\* second movie.
C33_Witness ==
    /\ run = 2
    /\ InMoviePass /\ wpc = "idle" /\ idx = 3
    /\ movies_skipped = 1 /\ movies_processed = 1
    /\ Len(output_file) = 2
    /\ output_file[1] = MovieCsvHeader
    /\ output_file[2][1] = movies[2].name


\* C40: under the scheduler at most one call of run_scraper is in progress
\* at any time, whenever the scheduler was started and however long a run
\* takes.
C40_ScrapesNeverOverlap == RunningScrapes <= 1

====
